---- MODULE Spec2Model ----
(***************************************************************************)
(* A state-machine model of the EMA crossover trading bot                  *)
(* (src/trading_bot): the engine's session initialisation, its trading     *)
(* tick (run_loop), the risk controller, the order manager's error         *)
(* tracking, the persisted state store, and the brokerage venue the        *)
(* engine talks to.                                                        *)
(*                                                                         *)
(* Money and prices are integers.  Fractions of the configuration are      *)
(* kept as integers over Scale (0.0075 is 750 / Scale).  A handler is an   *)
(* operator from a program state s (a record of all variables) to the SET  *)
(* of states it can end in: the venue decides whether a call succeeds.     *)
(***************************************************************************)
EXTENDS Integers, Sequences, FiniteSets, TLC

VARIABLES
    pc,      \* position of the process: "down", "rearm", "idle", "exits", "scan"
    sm,      \* StateManager.state, the persisted state file
    rm,      \* RiskManager fields (in memory only)
    om,      \* OrderManager fields (in memory only)
    eng,     \* TradingEngine: locals of the running tick, trade logger counter
    venue,   \* the brokerage: positions, unfilled entry quantity, live stop orders
    aux      \* history variables used to state the properties

vars == <<pc, sm, rm, om, eng, venue, aux>>

-----------------------------------------------------------------------------
(* Bounds of the model *)

\* entry orders the venue accepts over a run (trade ids are 1..MaxEntries)
MaxEntries == 2
\* stop orders the venue accepts over a run (order ids are 1..MaxOrders)
MaxOrders == 4
\* failed venue calls over a run
MaxFailures == 3
\* process starts over a run
MaxStarts == 2
\* ages of errors saturate after this many scheduler periods
MaxAgeTicks == 2
\* the bars-held counter saturates here: a saturated counter stands for
\* every count from MaxBars up
MaxBars == 1

\* What the environment of one run is allowed: entry orders, failed venue
\* calls, process starts, stop orders, the directions the market takes,
\* what the market data says to the circuit breaker, whether a process
\* runs past midnight, and whether a shutdown signal arrives inside a tick.
\* A run has either all its entries in a rising calm market where no venue
\* call fails, with one process start more, or all its failures in a calm
\* market of both directions with one entry and two stop orders less, or a
\* rising market of every volatility, with processes that run past midnight
\* or are signalled inside a tick, one entry and no failure.
Budgets ==
    { [entries |-> MaxEntries, failures |-> 0, starts |-> MaxStarts + 1,
       orders |-> MaxOrders, markets |-> {"bullish"}, circuit |-> {"calm"},
       overnight |-> FALSE, midtick |-> FALSE],
      [entries |-> MaxEntries - 1, failures |-> MaxFailures, starts |-> MaxStarts,
       orders |-> MaxOrders - 2, markets |-> {"bullish", "bearish"},
       circuit |-> {"calm"}, overnight |-> FALSE, midtick |-> FALSE],
      [entries |-> MaxEntries - 1, failures |-> 0, starts |-> MaxStarts,
       orders |-> MaxOrders - 2, markets |-> {"bullish"},
       circuit |-> {"calm", "tripped", "nodata"}, overnight |-> TRUE,
       midtick |-> TRUE] }

Symbols == {"AAPL", "MSFT"}
\* state_manager.get_universe(): the order in which the scan visits the universe
Universe == <<"AAPL", "MSFT">>
\* latest closes seen by _manage_exits
Prices == {150, 240}
EntryPrices == {200}
\* ATR of a signal, and of the bars seen by _manage_exits
ATRs == {4, 32}
BarATRs == {4}
Regimes == {"normal"}
Equities == {4000}
\* what the market data of a tick says to the circuit breaker: no reference
\* bars, a threshold exceeded, or both measures within thresholds
CircuitInputs == {"nodata", "tripped", "calm"}
\* quoted spread of a signal that passed the liquidity filter, in basis points
Spreads == {5}

-----------------------------------------------------------------------------
(* Program constants (src/trading_bot/config.py), fractions over Scale *)

Scale == 10 ^ 5
RISK_PER_TRADE == 750
MIN_RISK_PER_TRADE == 500
TOTAL_OPEN_RISK_CAP == 3500
SECTOR_EXPOSURE_CAP == 40000
MIN_STOP_SPREAD_MULTIPLIER == 3
MIN_STOP_PERCENT == 500
DRAWDOWN_RISK_REDUCTION == 50000
DRAWDOWN_THRESHOLD == 2000
MAX_DAILY_LOSS == 3000
MAX_CONSECUTIVE_LOSSES == 3
MAX_CONCURRENT_POSITIONS == 5
PARTIAL_TAKE_PERCENT == 50000
\* R multiples, in hundredths
PARTIAL_TAKE_PROFIT_R == 150
TIME_STOP_MIN_R == 25
TIME_STOP_BARS == 12
TARGET_SLIPPAGE_BPS == 5
SLIPPAGE_SIZE_CAP == 50000
KILL_SWITCH_ERROR_COUNT == 3
KILL_SWITCH_WINDOW_MINUTES == 10
\* ATR multipliers of calculate_trailing_stop, in tenths
high_vol_mult == 15
low_vol_mult == 25
\* main.py: the tick is scheduled every 5 minutes and the scheduler is polled
\* every 10 seconds, so consecutive ticks start TickGapSeconds apart
SCHEDULE_MINUTES == 5
POLL_SECONDS == 10
TickGapSeconds == SCHEDULE_MINUTES * 60 + POLL_SECONDS
MaxAge == MaxAgeTicks * TickGapSeconds

SECTOR_MAP == [x \in Symbols |-> "Technology"]

-----------------------------------------------------------------------------
(* Helpers *)

NoTime == 0 - 1
\* no stop has been recomputed in this step
NoStop == 0 - 1

Abs(x) == IF x >= 0 THEN x ELSE -x
Max2(a, b) == IF a >= b THEN a ELSE b
Min2(a, b) == IF a <= b THEN a ELSE b
\* Python's int(): truncation toward zero of n / d, d > 0
Trunc(n, d) == IF n >= 0 THEN n \div d ELSE -((-n) \div d)

\* dict operations
Put(f, k, v) == [x \in (DOMAIN f) \cup {k} |-> IF x = k THEN v ELSE f[x]]
Del(f, k) == [x \in (DOMAIN f) \ {k} |-> f[x]]
Empty == [x \in {} |-> 0]

RECURSIVE SumOver(_, _)
SumOver(f, S) ==
    IF S = {} THEN 0
    ELSE LET x == CHOOSE y \in S : TRUE IN f[x] + SumOver(f, S \ {x})
SumValues(f) == SumOver(f, DOMAIN f)

RECURSIVE SortedSeq(_)
\* the ids of S in ascending order: the iteration order of the dict
SortedSeq(S) ==
    IF S = {} THEN <<>>
    ELSE LET m == CHOOSE y \in S : \A z \in S : y <= z
         IN <<m>> \o SortedSeq(S \ {m})

\* the union of F(x) over the states x of a set: sequential composition
Bind(X, F(_)) == UNION {F(x) : x \in X}

-----------------------------------------------------------------------------
(* The state right after construction, and the parts a restart rebuilds *)

\* StateManager._default_state
default_state ==
    [ active_trades |-> Empty,
      pending_stops |-> Empty,
      bars_since_entry |-> Empty,
      observed_slippage |-> Empty,
      last_session_date |-> "none",
      kill_switch_active |-> FALSE,
      paused_until_next_session |-> FALSE,
      circuit_breaker_active |-> FALSE ]

\* RiskManager.__init__
new_risk_manager ==
    [ daily_pnl |-> 0,
      daily_start_equity |-> 0,
      consecutive_losses |-> 0,
      peak_equity |-> 0,
      trade_risk |-> Empty,
      paused_until_next_session |-> FALSE,
      circuit_breaker_active |-> FALSE ]

\* OrderManager.__init__
new_order_manager == [ error_count |-> 0, last_error_time |-> NoTime ]

\* the engine's locals between ticks; trade_counter is the trade logger's
\* counter, which it reads back from the workbook on construction
new_engine(counter) ==
    [ equity |-> 0, todo |-> <<>>, scan |-> <<>>, positions |-> Empty,
      market |-> "none", after |-> "run", trade_counter |-> counter ]

\* what the last reconcile_positions of this process did: the symbols the
\* venue reported, the three lists of discrepancies, and whether it returned
no_recon ==
    [ ran |-> FALSE, broker |-> {}, missing_in_state |-> {},
      missing_in_broker |-> {}, qty_mismatch |-> {}, returned |-> FALSE ]

new_aux ==
    [ last |-> "none", venue_called |-> FALSE, found_closed |-> {},
      err_ages |-> <<>>, reconciled |-> FALSE, tick_ended |-> FALSE,
      new_stop |-> NoStop, failures |-> 0, starts |-> 0,
      breaker |-> "none", streak |-> 0, stop_hit |-> FALSE, recon |-> no_recon, budget |-> CHOOSE b \in Budgets : TRUE ]

new_venue ==
    [ pos |-> [x \in Symbols |-> 0],
      next_order |-> 1,
      pending |-> [x \in Symbols |-> 0],
      stops |-> Empty,
      entries |-> 0 ]

\* the whole state as one record
State ==
    [ pc |-> pc, sm |-> sm, rm |-> rm, om |-> om, eng |-> eng,
      venue |-> venue, aux |-> aux ]

Becomes(s) ==
    /\ pc' = s.pc
    /\ sm' = s.sm
    /\ rm' = s.rm
    /\ om' = s.om
    /\ eng' = s.eng
    /\ venue' = s.venue
    /\ aux' = s.aux

Mark(s, what) == [s EXCEPT !.aux.last = what]
Called(s) == [s EXCEPT !.aux.venue_called = TRUE]

-----------------------------------------------------------------------------
(* OrderManager: error tracking *)

LastK(q) ==
    IF Len(q) <= KILL_SWITCH_ERROR_COUNT THEN q
    ELSE SubSeq(q, Len(q) - KILL_SWITCH_ERROR_COUNT + 1, Len(q))

WindowExpired(t) == t # NoTime /\ t > KILL_SWITCH_WINDOW_MINUTES * 60

\* a venue call can fail while the run has failures left
CanFail(s) == s.aux.failures < s.aux.budget.failures
Outcomes(s) == IF CanFail(s) THEN BOOLEAN ELSE {TRUE}
Failed(s) == [Called(s) EXCEPT !.aux.failures = @ + 1]

\* OrderManager._track_error
track_error(s) ==
    LET c == IF WindowExpired(s.om.last_error_time) THEN 0 ELSE s.om.error_count
    IN [s EXCEPT !.om = [error_count |-> c + 1, last_error_time |-> 0],
                 !.aux.err_ages = LastK(Append(@, 0))]

\* OrderManager.should_trigger_kill_switch
should_trigger_kill_switch(s) == s.om.error_count >= KILL_SWITCH_ERROR_COUNT

-----------------------------------------------------------------------------
(* StateManager: every mutator ends in save_state, so the file is the state *)

update_trade(s, id, data) == [s EXCEPT !.sm.active_trades = Put(@, id, data)]

remove_trade(s, id) ==
    [s EXCEPT !.sm.active_trades = Del(@, id),
              !.sm.bars_since_entry = Del(@, id)]

sm_update_stop(s, symbol, order_id, stop_price) ==
    [s EXCEPT !.sm.pending_stops =
        Put(@, symbol, [order_id |-> order_id, stop_price |-> stop_price])]

remove_stop(s, symbol) == [s EXCEPT !.sm.pending_stops = Del(@, symbol)]

set_kill_switch(s, active) == [s EXCEPT !.sm.kill_switch_active = active]

\* a run_loop that does not see the flag
is_kill_switch_active_never(s) == FALSE

\* StateManager.is_kill_switch_active
is_kill_switch_active(s) == s.sm.kill_switch_active

set_paused(s, paused) == [s EXCEPT !.sm.paused_until_next_session = paused]

\* The state file as a starting process finds it: "absent", "unreadable"
\* (open or read raises), "garbled" (json.load raises) or "valid"; content is
\* the state last saved to it.
file_of(kind, content) == [kind |-> kind, content |-> content]

\* a _load_state without the try/except around open and json.load
load_state_unguarded(file) ==
    IF file.kind # "absent"
    THEN IF file.kind = "valid"
         THEN [raised |-> FALSE, state |-> file.content]
         ELSE [raised |-> TRUE, state |-> Empty]
    ELSE [raised |-> FALSE, state |-> default_state]

\* StateManager._load_state: the state, and whether an exception escaped
load_state(file) ==
    IF file.kind # "absent"
    THEN IF file.kind = "valid"
         THEN [raised |-> FALSE, state |-> file.content]
         ELSE [raised |-> FALSE, state |-> default_state]
    ELSE [raised |-> FALSE, state |-> default_state]

\* StateManager.reset_for_new_session
reset_for_new_session(s) ==
    IF s.sm.last_session_date # "today"
    THEN [s EXCEPT !.sm.paused_until_next_session = FALSE,
                   !.sm.circuit_breaker_active = FALSE,
                   !.sm.last_session_date = "today"]
    ELSE s

-----------------------------------------------------------------------------
(* Venue capability, as the order manager wraps it *)

\* OrderManager.close_all_positions
close_all_positions(s, ok) ==
    IF ok THEN [Called(s) EXCEPT !.venue.pos = [x \in Symbols |-> 0]]
    ELSE Failed(s)

\* OrderManager.cancel_all_orders
cancel_all_orders(s, ok) ==
    IF ok THEN [Called(s) EXCEPT !.venue.stops = Empty,
                                 !.venue.pending = [x \in Symbols |-> 0]]
    ELSE Failed(s)

\* OrderManager.cancel_order: True iff the venue cancelled the order
cancel_order(s, order_id, ok) ==
    IF ~ok THEN Failed(s)
    ELSE IF order_id \in DOMAIN s.venue.stops
    THEN [Called(s) EXCEPT !.venue.stops = Del(@, order_id)]
    ELSE Called(s)

\* a venue call whose failure the order manager tracks, failing
tracked_failure(s) == IF CanFail(s) THEN {track_error(Failed(s))} ELSE {}

\* the venue accepts a stop order while the run has orders left
CanPlaceStop(s) == s.venue.next_order <= s.aux.budget.orders
next_order(s) == s.venue.next_order

\* OrderManager.submit_stop_order / submit_trailing_stop_order succeeding
place_stop(s, symbol) ==
    [Called(s) EXCEPT !.venue.stops = Put(@, next_order(s), symbol),
                      !.venue.next_order = @ + 1]

-----------------------------------------------------------------------------
(* TradingEngine: flatten and the kill switch *)

\* TradingEngine._flatten_all
flatten_all(s) ==
    LET closed == {close_all_positions(s, ok) : ok \in Outcomes(s)}
        cancelled == Bind(closed, LAMBDA x :
                        {cancel_all_orders(x, ok) : ok \in Outcomes(x)})
    IN {[x EXCEPT !.sm.active_trades = Empty,
                  !.sm.bars_since_entry = Empty,
                  !.sm.pending_stops = Empty,
                  !.sm.paused_until_next_session = TRUE] : x \in cancelled}

\* TradingEngine._handle_error
handle_error(s) ==
    IF should_trigger_kill_switch(s)
    THEN {Mark(set_kill_switch(x, TRUE), "kill") : x \in flatten_all(s)}
    ELSE {s}

-----------------------------------------------------------------------------
(* indicators.py *)

\* calculate_trailing_stop
calculate_trailing_stop(entry_price, current_price, atr, volatility_regime, is_long) ==
    LET atr_mult == IF volatility_regime = "high" THEN high_vol_mult ELSE low_vol_mult
        stop_distance == (atr * atr_mult) \div 10
    IN IF is_long THEN current_price - stop_distance
       ELSE current_price + stop_distance

\* calculate_r_multiple, in hundredths rounded down (exact for the comparisons
\* with PARTIAL_TAKE_PROFIT_R and TIME_STOP_MIN_R, which are whole hundredths)
calculate_r_multiple(entry_price, current_price, stop_distance, is_long) ==
    IF stop_distance = 0 THEN 0
    ELSE LET pnl == IF is_long THEN current_price - entry_price
                    ELSE entry_price - current_price
         IN (pnl * 100) \div stop_distance

\* is_in_drawdown (threshold 0.02)
is_in_drawdown(current_equity, peak_equity) ==
    IF peak_equity = 0 THEN FALSE
    ELSE (peak_equity - current_equity) * Scale > DRAWDOWN_THRESHOLD * peak_equity

-----------------------------------------------------------------------------
(* RiskManager *)

\* RiskManager.initialize_day: a new RiskManager has no last_session_date
initialize_day(s, equity) ==
    [s EXCEPT !.rm.daily_pnl = 0,
              !.rm.daily_start_equity = equity,
              !.rm.paused_until_next_session = FALSE,
              !.rm.circuit_breaker_active = FALSE,
              !.rm.consecutive_losses = 0,
              !.rm.peak_equity = IF equity > @ THEN equity ELSE @]

update_daily_pnl(s, pnl_change) == [s EXCEPT !.rm.daily_pnl = @ + pnl_change]

\* RiskManager.record_trade_result; aux.streak keeps, across processes, the
\* number of losing results since the last winning result or midnight
record_trade_result(s, is_win) ==
    IF is_win THEN [s EXCEPT !.rm.consecutive_losses = 0, !.aux.streak = 0]
    ELSE [s EXCEPT !.rm.consecutive_losses = @ + 1,
                   !.rm.paused_until_next_session =
                       IF s.rm.consecutive_losses + 1 >= MAX_CONSECUTIVE_LOSSES
                       THEN TRUE ELSE @,
                   !.aux.streak = @ + 1]

\* RiskManager.check_daily_loss_limit: the condition
daily_loss_limit_hit(r) ==
    /\ r.daily_start_equity # 0
    /\ r.daily_pnl * Scale <= -(MAX_DAILY_LOSS * r.daily_start_equity)

\* RiskManager.check_daily_loss_limit: (state, result)
check_daily_loss_limit(s) ==
    IF daily_loss_limit_hit(s.rm)
    THEN <<[s EXCEPT !.rm.paused_until_next_session = TRUE], TRUE>>
    ELSE <<s, FALSE>>

\* RiskManager.check_circuit_breaker, on the outcome of its two comparisons
check_circuit_breaker(s, tripped) == [s EXCEPT !.rm.circuit_breaker_active = tripped]

\* a can_enter_new_trade that does not look at the circuit breaker
can_enter_new_trade_in_any_market(s) == ~s.rm.paused_until_next_session

\* RiskManager.can_enter_new_trade
can_enter_new_trade(s) ==
    ~s.rm.paused_until_next_session /\ ~s.rm.circuit_breaker_active

\* RiskManager.get_adjusted_risk_percent, over Scale.  The equity history has
\* one entry per initialize_day, one per process, so the boost branch
\* (EQUITY_CURVE_LOOKBACK = 20 entries) is not reached.
get_adjusted_risk_percent(r, current_equity) ==
    IF is_in_drawdown(current_equity, r.peak_equity)
    THEN Max2(MIN_RISK_PER_TRADE,
              (RISK_PER_TRADE * (Scale - DRAWDOWN_RISK_REDUCTION)) \div Scale)
    ELSE RISK_PER_TRADE

\* a sizing that may give no share at all
calculate_position_size_unrounded(r, account_equity, entry_price, stop_price, spread_bps) ==
    LET dist == Abs(entry_price - stop_price) * Scale
        min_stop_spread == spread_bps * entry_price * 10 * MIN_STOP_SPREAD_MULTIPLIER
        min_stop_percent == entry_price * MIN_STOP_PERCENT
        min_stop == Max2(min_stop_spread, min_stop_percent)
        stop_distance == IF dist < min_stop THEN min_stop ELSE dist
        risk_amount == account_equity * get_adjusted_risk_percent(r, account_equity)
        shares == risk_amount \div stop_distance
    IN <<shares, (shares * stop_distance) \div Scale>>

\* RiskManager.calculate_position_size: <<shares, actual_risk>>.
\* median_spread is spread_bps * entry_price / 10000; distances are compared
\* over Scale
calculate_position_size(r, account_equity, entry_price, stop_price, spread_bps) ==
    LET dist == Abs(entry_price - stop_price) * Scale
        min_stop_spread == spread_bps * entry_price * 10 * MIN_STOP_SPREAD_MULTIPLIER
        min_stop_percent == entry_price * MIN_STOP_PERCENT
        min_stop == Max2(min_stop_spread, min_stop_percent)
        stop_distance == IF dist < min_stop THEN min_stop ELSE dist
        risk_amount == account_equity * get_adjusted_risk_percent(r, account_equity)
        shares == Max2(1, risk_amount \div stop_distance)
    IN <<shares, (shares * stop_distance) \div Scale>>

\* RiskManager.check_total_risk_capacity
check_total_risk_capacity(r, proposed_risk, account_equity) ==
    LET current_total_risk == SumValues(r.trade_risk)
        max_total_risk == account_equity * TOTAL_OPEN_RISK_CAP
    IN ~((current_total_risk + proposed_risk) * Scale > max_total_risk)

\* RiskManager.check_position_limit
check_position_limit(current_positions) ==
    ~(current_positions >= MAX_CONCURRENT_POSITIONS)

\* RiskManager.check_sector_exposure; positions maps symbol -> market value
check_sector_exposure(symbol, proposed_value, positions, account_equity) ==
    LET same == {x \in DOMAIN positions : SECTOR_MAP[x] = SECTOR_MAP[symbol]}
        sector_exposure == SumOver(positions, same)
    IN ~((sector_exposure + proposed_value) * Scale
            > account_equity * SECTOR_EXPOSURE_CAP)

register_trade_risk(s, symbol, risk_amount) ==
    [s EXCEPT !.rm.trade_risk = Put(@, symbol, risk_amount)]

unregister_trade_risk(s, symbol) == [s EXCEPT !.rm.trade_risk = Del(@, symbol)]

-----------------------------------------------------------------------------
(* OrderManager: sizing helpers *)

\* OrderManager.calculate_slippage, in basis points
calculate_slippage(signal_price, fill_price) ==
    IF signal_price = 0 THEN 0
    ELSE (Abs(fill_price - signal_price) * 10000) \div signal_price

\* OrderManager.adjust_size_for_slippage
adjust_size_for_slippage(base_size, observed_slippage) ==
    IF observed_slippage <= 0 THEN base_size
    ELSE LET ratio == (TARGET_SLIPPAGE_BPS * Scale) \div observed_slippage
             capped == Max2(Scale - SLIPPAGE_SIZE_CAP,
                            Min2(Scale + SLIPPAGE_SIZE_CAP, ratio))
         IN Max2(1, (base_size * capped) \div Scale)

\* StateManager.get_observed_slippage
get_observed_slippage(s, symbol) ==
    IF symbol \in DOMAIN s.sm.observed_slippage
    THEN s.sm.observed_slippage[symbol] ELSE TARGET_SLIPPAGE_BPS

\* StateManager.update_observed_slippage: 0.7 * current + 0.3 * new
update_observed_slippage(s, symbol, slippage_bps) ==
    LET current == IF symbol \in DOMAIN s.sm.observed_slippage
                   THEN s.sm.observed_slippage[symbol] ELSE slippage_bps
    IN [s EXCEPT !.sm.observed_slippage =
            Put(@, symbol, (7 * current + 3 * slippage_bps) \div 10)]

-----------------------------------------------------------------------------
(* TradingEngine: exits *)

IsLong(trade) == trade.side = "long"

\* OrderManager.close_position: None when the venue holds no position for the
\* symbol ("position does not exist") or the call fails; otherwise the
\* position is liquidated
close_position_ok(s, symbol, ok) == ok /\ s.venue.pos[symbol] # 0

\* TradingEngine._exit_trade
exit_trade(s, id, exit_price, ok) ==
    LET trade == s.sm.active_trades[id]
        symbol == trade.symbol
        pnl == IF IsLong(trade) THEN (exit_price - trade.entry_price) * trade.qty
               ELSE (trade.entry_price - exit_price) * trade.qty
    IN IF ~close_position_ok(s, symbol, ok)
       THEN Mark(IF ok THEN Called(s) ELSE Failed(s), "close_failed")
       ELSE LET s1 == [Called(s) EXCEPT !.venue.pos[symbol] = 0]
                s2 == remove_stop(remove_trade(s1, id), symbol)
                s3 == update_daily_pnl(unregister_trade_risk(s2, symbol), pnl)
            IN Mark(record_trade_result(s3, pnl >= 0), "exit")

\* _exit_trade over the outcomes of the close call
exit_trade_outcomes(s, id, exit_price) ==
    {exit_trade(s, id, exit_price, ok) : ok \in Outcomes(s)}

\* TradingEngine._handle_closed_position: the exit price is the latest bar's
\* close, or the trade's stop price when there is no latest bar; aux.stop_hit
\* keeps that the step took the Trade for closed by its stop
handle_closed_position(s, id) ==
    LET trade == s.sm.active_trades[id]
    IN Bind(Prices \cup {trade.stop_price},
            LAMBDA p : exit_trade_outcomes([s EXCEPT !.aux.stop_hit = TRUE], id, p))

\* TradingEngine._take_partial_profit; position_qty is the venue's quantity
take_partial_profit(s, id, position_qty) ==
    LET trade == s.sm.active_trades[id]
        symbol == trade.symbol
        current_qty == position_qty
        partial_qty == Trunc(current_qty * PARTIAL_TAKE_PERCENT, Scale)
        sold == [Called(s) EXCEPT !.venue.pos[symbol] =
                    IF IsLong(trade) THEN @ - partial_qty ELSE @ + partial_qty]
        data == [trade EXCEPT !.partial_taken = TRUE,
                              !.qty = current_qty - partial_qty]
    IN IF partial_qty < 1 THEN {s}
       ELSE {Mark(update_trade(sold, id, data), "partial")}
            \cup tracked_failure(s)

\* TradingEngine._update_stop, after the cancel step
submit_new_stop(s, id, new_stop) ==
    LET trade == s.sm.active_trades[id]
        symbol == trade.symbol
        placed == place_stop(s, symbol)
        data == [trade EXCEPT !.stop_price = new_stop]
        done == sm_update_stop(update_trade(placed, id, data), symbol,
                               next_order(s), new_stop)
    IN (IF CanPlaceStop(s) THEN {Mark(done, "stop_updated")} ELSE {})
       \cup tracked_failure(s)

\* TradingEngine._update_stop
update_stop(s, id, new_stop) ==
    LET symbol == s.sm.active_trades[id].symbol
        s0 == [s EXCEPT !.aux.new_stop = new_stop]
        cancelled ==
            IF symbol \in DOMAIN s.sm.pending_stops
            THEN {cancel_order(s0, s.sm.pending_stops[symbol].order_id, ok)
                    : ok \in Outcomes(s)}
            ELSE {s0}
    IN Bind(cancelled, LAMBDA x : submit_new_stop(x, id, new_stop))

\* an update that also fires when the recomputed stop equals the current one
more_favorable_or_equal(is_long, new_stop, current_stop) ==
    (is_long /\ new_stop >= current_stop) \/ (~is_long /\ new_stop <= current_stop)

\* _manage_exits line 680: "only update if more favorable"
more_favorable(is_long, new_stop, current_stop) ==
    (is_long /\ new_stop > current_stop) \/ (~is_long /\ new_stop < current_stop)

\* StateManager.increment_bars_held, kept up to MaxBars
increment_bars_held(s, id) ==
    LET current == IF id \in DOMAIN s.sm.bars_since_entry
                   THEN s.sm.bars_since_entry[id] ELSE 0
    IN Min2(current + 1, MaxBars)

\* the outcomes of "bars_held >= TIME_STOP_BARS" (line 654) for the counts
\* the counter stands for
time_stop_due(bars_held) ==
    IF bars_held < MaxBars THEN {bars_held >= TIME_STOP_BARS}
    ELSE {b >= TIME_STOP_BARS : b \in MaxBars .. Max2(MaxBars, TIME_STOP_BARS)}

\* lines 667-681 without the partial_taken test of line 668
ratchet_retaking(s, id, position_qty, price, atr, r_mult) ==
    LET trade == s.sm.active_trades[id]
        taken == IF r_mult >= PARTIAL_TAKE_PROFIT_R
                 THEN take_partial_profit(s, id, position_qty)
                 ELSE {s}
        new_stop == calculate_trailing_stop(trade.entry_price, price, atr,
                                            trade.vol_regime, IsLong(trade))
    IN Bind(taken, LAMBDA x :
            IF more_favorable(IsLong(trade), new_stop, trade.stop_price)
            THEN update_stop(x, id, new_stop)
            ELSE {x})

\* _manage_exits, lines 667-681: partial take, then the trailing stop
ratchet(s, id, position_qty, price, atr, r_mult) ==
    LET trade == s.sm.active_trades[id]
        taken == IF r_mult >= PARTIAL_TAKE_PROFIT_R /\ ~trade.partial_taken
                 THEN take_partial_profit(s, id, position_qty)
                 ELSE {s}
        new_stop == calculate_trailing_stop(trade.entry_price, price, atr,
                                            trade.vol_regime, IsLong(trade))
    IN Bind(taken, LAMBDA x :
            IF more_favorable(IsLong(trade), new_stop, trade.stop_price)
            THEN update_stop(x, id, new_stop)
            ELSE {x})

\* _manage_exits, lines 642-681, for one trade with bars; cross is the result
\* of detect_ema_crossover on the trade's EMA periods
manage_with_bars(s, id, position_qty, price, atr, cross) ==
    LET trade == s.sm.active_trades[id]
        is_long == IsLong(trade)
        stop_distance == Abs(trade.entry_price - trade.stop_price)
        r_mult == calculate_r_multiple(trade.entry_price, price, stop_distance, is_long)
        bars_held == increment_bars_held(s, id)
        s1 == [s EXCEPT !.sm.bars_since_entry = Put(@, id, bars_held)]
    IN UNION {IF due /\ r_mult < TIME_STOP_MIN_R
              THEN exit_trade_outcomes(s1, id, price)
              ELSE IF (is_long /\ cross = "bearish") \/ (~is_long /\ cross = "bullish")
              THEN exit_trade_outcomes(s1, id, price)
              ELSE ratchet(s1, id, position_qty, price, atr, r_mult)
                : due \in time_stop_due(bars_held)}

Crosses == {"none", "bullish", "bearish"}

\* _manage_exits, the try block of the loop for one trade when nothing
\* raises.  get_position yields None when the venue holds no position and
\* also when the lookup fails.
manage_body(s, id) ==
    LET trade == s.sm.active_trades[id]
        q == s.venue.pos[trade.symbol]
        gone == [Called(s) EXCEPT !.aux.found_closed = @ \cup {id}]
    IN IF q = 0 THEN handle_closed_position(gone, id)
       ELSE (IF CanFail(s) THEN handle_closed_position(Failed(s), id) ELSE {})
            \cup {Called(s)}
            \cup UNION {manage_with_bars(Called(s), id, q, p, a, c)
                          : p \in Prices, a \in BarATRs, c \in Crosses}

\* the try block raised on the market data of a trade whose position the
\* venue reported (lines 637-664, before anything is written)
exit_raised(s, id) ==
    IF s.venue.pos[s.sm.active_trades[id].symbol] # 0
    THEN {Mark(Called(s), "exit_error")} ELSE {}

\* a loop without the try/except of lines 629 and 686: the exception leaves
\* _manage_exits and no other trade is managed
manage_one_unguarded(s, id) ==
    manage_body(s, id)
    \cup {[x EXCEPT !.eng.todo = <<>>] : x \in exit_raised(s, id)}

\* _manage_exits, the body of the loop for one trade: an exception is logged
\* (lines 686-687) and the loop goes on
manage_one(s, id) ==
    manage_body(s, id) \cup exit_raised(s, id)

-----------------------------------------------------------------------------
(* TradingEngine: entries *)

\* the price at which the venue values a position (market_value)
MarkPrice == CHOOSE p \in EntryPrices : TRUE

\* what get_positions reports when it succeeds: symbol -> |market value|
venue_positions(s) ==
    [x \in {y \in Symbols : s.venue.pos[y] # 0} |-> Abs(s.venue.pos[x]) * MarkPrice]

\* OrderManager.get_positions: the list, or [] and a tracked error.
\* The snapshot is kept in the engine's local "positions".
get_positions(s) ==
    {[Called(s) EXCEPT !.eng.positions = venue_positions(s)]}
    \cup {[x EXCEPT !.eng.positions = Empty] : x \in tracked_failure(s)}

\* the signals _check_entry_signal can return; a long signal needs a bullish
\* market and a short one a bearish market
Signals(market) ==
    [ signal_type : IF market = "bullish" THEN {"LONG"}
                    ELSE IF market = "bearish" THEN {"SHORT"} ELSE {},
      entry_price : EntryPrices,
      atr : ATRs,
      vol_regime : Regimes,
      spread : Spreads ]

\* the quantity of an entry order the venue has filled when the engine looks
Fills(shares) == {0, shares} \cup {q \in {shares \div 2} : q >= 1}

\* _execute_entry, lines 559-620: the order is reported filled for filled_qty
record_entry(s, signal, shares, risk_amount, filled_qty, fill_price, stopOk) ==
    LET symbol == signal.symbol
        is_long == signal.signal_type = "LONG"
        slippage == calculate_slippage(signal.entry_price, fill_price)
        s1 == update_observed_slippage(s, symbol, slippage)
        actual_stop == calculate_trailing_stop(fill_price, fill_price, signal.atr,
                                               signal.vol_regime, is_long)
        placed == stopOk
        s2 == IF placed THEN place_stop(s1, symbol) ELSE track_error(Failed(s1))
        trade_id == s.eng.trade_counter + 1
        s3 == [s2 EXCEPT !.eng.trade_counter = trade_id]
        s4 == update_trade(s3, trade_id,
                [ symbol |-> symbol,
                  side |-> IF is_long THEN "long" ELSE "short",
                  entry_price |-> fill_price,
                  qty |-> filled_qty,
                  stop_price |-> actual_stop,
                  risk_amount |-> risk_amount,
                  vol_regime |-> signal.vol_regime,
                  partial_taken |-> FALSE ])
        s5 == IF placed
              THEN sm_update_stop(s4, symbol, next_order(s1), actual_stop)
              ELSE s4
    IN Mark(register_trade_risk(s5, symbol, risk_amount), "entry")

\* _execute_entry, lines 542-557: the order is at the venue, which has filled
\* f of it when the engine asks one second later
after_submit(s, signal, shares, risk_amount, f) ==
    LET symbol == signal.symbol
        sgn == IF signal.signal_type = "LONG" THEN 1 ELSE -1
        s1 == [Called(s) EXCEPT !.venue.entries = @ + 1,
                                !.venue.pos[symbol] = @ + sgn * f,
                                !.venue.pending[symbol] = @ + sgn * (shares - f)]
        stops == {ok \in Outcomes(s1) : ok => CanPlaceStop(s1)}
    IN IF f = 0 THEN {Mark(s1, "entry_pending")}
       ELSE (IF CanFail(s1) THEN {Mark(Failed(s1), "entry_pending")} ELSE {})
            \cup {record_entry(s1, signal, shares, risk_amount, f,
                               signal.entry_price, stopOk) : stopOk \in stops}

\* _execute_entry lines 513-515: <<shares, risk_amount>> of the signal
approved_size(s, signal) ==
    calculate_position_size(s.rm, s.eng.equity, signal.entry_price,
                            signal.stop_price, signal.spread)

\* _execute_entry lines 538-540: the quantity of the entry order
order_size(s, signal) ==
    adjust_size_for_slippage(approved_size(s, signal)[1],
                             get_observed_slippage(s, signal.symbol))

\* TradingEngine._execute_entry; signal carries symbol and stop_price
execute_entry(s, signal) ==
    LET symbol == signal.symbol
        equity == s.eng.equity
        size == approved_size(s, signal)
        risk_amount == size[2]
        position_value == size[1] * signal.entry_price
        shares == order_size(s, signal)
    IN IF ~check_total_risk_capacity(s.rm, risk_amount, equity)
       THEN {s}
       ELSE IF ~check_sector_exposure(symbol, position_value, s.eng.positions, equity)
       THEN {s}
       ELSE Bind(tracked_failure(s), handle_error)
            \cup UNION {after_submit(s, signal, shares, risk_amount, f)
                          : f \in Fills(shares)}

\* _check_entry_signal followed by the stop computation of lines 480-484
with_stop(sig, symbol) ==
    [ symbol |-> symbol,
      signal_type |-> sig.signal_type,
      entry_price |-> sig.entry_price,
      atr |-> sig.atr,
      vol_regime |-> sig.vol_regime,
      spread |-> sig.spread,
      stop_price |-> calculate_trailing_stop(sig.entry_price, sig.entry_price,
                        sig.atr, sig.vol_regime, sig.signal_type = "LONG") ]

\* run_loop line 210 and the return to the scheduler
end_tick(s) ==
    [s EXCEPT !.pc = "idle", !.eng.todo = <<>>, !.eng.scan = <<>>,
              !.eng.positions = Empty, !.eng.market = "none",
              !.aux.tick_ended = TRUE]

\* _scan_for_entries, lines 256-259: after an executed signal
recheck_limit(s) ==
    {IF check_position_limit(Cardinality(DOMAIN x.eng.positions)) THEN x
     ELSE [x EXCEPT !.eng.scan = <<>>] : x \in get_positions(s)}

\* _scan_for_entries, the body of the loop for the next symbol of the universe.
\* No signal stands for a halted symbol and for every rejection of the chain.
scan_symbol(s) ==
    LET symbol == Head(s.eng.scan)
        s1 == [s EXCEPT !.eng.scan = Tail(@)]
    IN IF symbol \in DOMAIN s.eng.positions THEN {s1}
       ELSE {s1} \cup
            (IF s.venue.entries < s.aux.budget.entries
             THEN UNION {Bind(execute_entry(s1, with_stop(sig, symbol)), recheck_limit)
                           : sig \in Signals(s.eng.market)}
             ELSE {})

continue_scan(s) == IF s.eng.scan # <<>> THEN [s EXCEPT !.pc = "scan"] ELSE end_tick(s)

-----------------------------------------------------------------------------
(* TradingEngine.run_loop *)

\* the observation fields are per step; found_closed is per tick
Prep(s) ==
    [s EXCEPT !.aux.last = "none", !.aux.venue_called = FALSE,
              !.aux.new_stop = NoStop, !.aux.breaker = "none",
              !.aux.stop_hit = FALSE]

\* run_loop lines 198-207, after _manage_exits: the flat rule, then the scan
\* when the clock, the risk manager and the pause flag allow it
scan_begin(s) ==
    Bind(get_positions(s), LAMBDA x :
        IF ~check_position_limit(Cardinality(DOMAIN x.eng.positions))
        THEN {end_tick(x)}
        ELSE {end_tick(x)}
             \cup {continue_scan([x EXCEPT !.eng.scan = Universe, !.eng.market = m])
                     : m \in x.aux.budget.markets})

after_exits(s) ==
    {end_tick(x) : x \in flatten_all(s)}
    \cup {end_tick(s)}
    \cup (IF can_enter_new_trade(s) /\ ~s.sm.paused_until_next_session
          THEN scan_begin(s) ELSE {})

continue_tick(s) == IF s.eng.todo # <<>> THEN {s} ELSE after_exits(s)

\* lines 180-193: the circuit breaker on the market data of this tick;
\* aux.breaker keeps what the data said
circuit_breaker_step(s, cb) ==
    LET s1 == [s EXCEPT !.aux.breaker = cb]
    IN IF cb = "nodata" THEN s1
       ELSE IF cb = "tripped"
       THEN [check_circuit_breaker(s1, TRUE) EXCEPT !.sm.circuit_breaker_active = TRUE]
       ELSE check_circuit_breaker(s1, FALSE)

\* lines 170-196 once the account has been read
with_account(s, equity) ==
    LET s1 == [Called(s) EXCEPT !.eng.equity = equity]
        dl == check_daily_loss_limit(s1)
    IN IF dl[2]
       THEN {end_tick(x) : x \in flatten_all(dl[1])}
       ELSE UNION {continue_tick(
                     [circuit_breaker_step(dl[1], cb) EXCEPT
                        !.pc = "exits",
                        !.eng.todo = SortedSeq(DOMAIN s.sm.active_trades)])
                   : cb \in CircuitInputs \cap s.aux.budget.circuit}

\* TradingEngine.run_loop up to the first trade of _manage_exits
run_loop(s) ==
    IF is_kill_switch_active(s) THEN {end_tick(Mark(s, "kill_return"))}
    ELSE {end_tick(s)}
         \cup {end_tick(x) : x \in Bind(tracked_failure(s), handle_error)}
         \cup UNION {with_account(s, e) : e \in Equities}

-----------------------------------------------------------------------------
(* Process start: main() and TradingEngine.initialize_session *)

\* StateManager.reconcile_positions; the ledger is iterated in insertion
\* order, which is the order of the trade ids.  Removing a trade while
\* iterating the same dict raises RuntimeError at the next step of the
\* iteration, so a purge ends the call, and the process, after one removal.
stale_trades(s, broker_symbols) ==
    {id \in DOMAIN s.sm.active_trades :
        s.sm.active_trades[id].symbol \notin broker_symbols}

\* a reconciliation that adopts every untracked venue position as a Trade
reconcile_adopting(trades, broker_symbols) ==
    LET state_symbols == {trades[id].symbol : id \in DOMAIN trades}
        stale == {id \in DOMAIN trades : trades[id].symbol \notin broker_symbols}
        purged == IF stale = {} THEN {} ELSE {Head(SortedSeq(stale))}
        untracked == broker_symbols \ state_symbols
        adopted == IF untracked = {} THEN {} ELSE {0}
    IN [ trades |-> [id \in ((DOMAIN trades) \ purged) \cup adopted |->
                        IF id \in DOMAIN trades THEN trades[id]
                        ELSE [ symbol |-> CHOOSE x \in untracked : TRUE,
                               side |-> "long", entry_price |-> 0, qty |-> 1,
                               stop_price |-> 0, risk_amount |-> 0,
                               vol_regime |-> "normal", partial_taken |-> FALSE ]],
         missing_in_state |-> untracked,
         missing_in_broker |-> purged,
         qty_mismatch |-> {},
         raised |-> stale # {} ]

\* reconcile_positions on the ledger and the symbols the venue reported: the
\* ledger it leaves, the lists it has built, and whether it raised.  Nothing
\* ever appends to qty_mismatch.
reconcile(trades, broker_symbols) ==
    LET state_symbols == {trades[id].symbol : id \in DOMAIN trades}
        stale == {id \in DOMAIN trades : trades[id].symbol \notin broker_symbols}
        purged == IF stale = {} THEN {} ELSE {Head(SortedSeq(stale))}
    IN [ trades |-> [id \in (DOMAIN trades) \ purged |-> trades[id]],
         missing_in_state |-> broker_symbols \ state_symbols,
         missing_in_broker |-> purged,
         qty_mismatch |-> {},
         raised |-> stale # {} ]

reconcile_positions(s) ==
    LET broker_symbols == DOMAIN s.eng.positions
        r == reconcile(s.sm.active_trades, broker_symbols)
        found == [ ran |-> TRUE, broker |-> broker_symbols,
                   missing_in_state |-> r.missing_in_state,
                   missing_in_broker |-> r.missing_in_broker,
                   qty_mismatch |-> r.qty_mismatch,
                   returned |-> ~r.raised ]
        s1 == [s EXCEPT !.aux.recon = found]
        s2 == IF r.missing_in_broker = {} THEN s1
              ELSE remove_trade(s1, CHOOSE id \in r.missing_in_broker : TRUE)
        s3 == [s2 EXCEPT !.sm.active_trades = r.trades]
    IN IF r.raised THEN [s3 EXCEPT !.pc = "down"]
       ELSE [s3 EXCEPT !.aux.reconciled = TRUE]

\* a main() that schedules the ticks whatever initialize_session returned
main_continues_always(ok) == TRUE

\* main(): ticks are scheduled only when initialize_session returned True
main_continues(ok) == ok

\* the state of a process that is not running: the file, the trade log and
\* the venue remain
stopped(s) ==
    [s EXCEPT !.pc = "down", !.rm = new_risk_manager, !.om = new_order_manager,
              !.eng = new_engine(s.eng.trade_counter),
              !.aux.reconciled = FALSE, !.aux.tick_ended = FALSE,
              !.aux.err_ages = <<>>, !.aux.found_closed = {}]

\* _rearm_stops begins: the loop over the ledger
rearm_begin(s, after) ==
    [s EXCEPT !.pc = "rearm", !.eng.after = after,
              !.eng.todo = SortedSeq(DOMAIN s.sm.active_trades)]

\* _rearm_stops ends: back in initialize_session (main schedules the ticks)
\* or in graceful_shutdown (the process exits)
continue_rearm(s) ==
    IF s.eng.todo # <<>> THEN s
    ELSE IF s.eng.after = "run" /\ main_continues(TRUE)
    THEN [s EXCEPT !.pc = "idle"]
    ELSE stopped(s)

\* initialize_session after get_account succeeded
init_with_account(s, equity) ==
    LET s1 == initialize_day([Called(s) EXCEPT !.eng.equity = equity], equity)
    IN {IF r.pc = "down" THEN stopped(r) ELSE continue_rearm(rearm_begin(r, "run"))
          : r \in {reconcile_positions(x) : x \in get_positions(s1)}}

\* main() from construction to the first tick
initialize_session(s) ==
    LET s0 == [reset_for_new_session(s) EXCEPT !.pc = "init"]
    IN {IF main_continues(FALSE) THEN [x EXCEPT !.pc = "idle"] ELSE stopped(x)
          : x \in tracked_failure(s0)}
       \cup UNION {init_with_account(s0, e) : e \in Equities}

\* _rearm_stops, the body of the loop for one trade
rearm_one(s) ==
    LET id == Head(s.eng.todo)
        s1 == [s EXCEPT !.eng.todo = Tail(@)]
        trade == s.sm.active_trades[id]
        symbol == trade.symbol
        live == {o \in DOMAIN s.venue.stops : s.venue.stops[o] = symbol}
        \* get_open_orders fails ([]), or each cancel succeeds or not
        left(x, C) == [x EXCEPT !.venue.stops = [o \in (DOMAIN @) \ C |-> @[o]]]
        cancelled == {left(Called(s1), live)}
                     \cup (IF CanFail(s1)
                           THEN {left(Failed(s1), C) : C \in (SUBSET live) \ {live}}
                           ELSE {})
        submit(x) ==
            (IF CanPlaceStop(x)
             THEN {sm_update_stop(place_stop(x, symbol), symbol,
                                  next_order(x), trade.stop_price)}
             ELSE {})
            \cup tracked_failure(x)
    IN IF trade.stop_price # 0 /\ trade.qty > 0
       THEN Bind(cancelled, submit)
       ELSE {s1}

-----------------------------------------------------------------------------
(* The state machine *)

Init ==
    /\ pc = "down"
    /\ sm = default_state
    /\ rm = new_risk_manager
    /\ om = new_order_manager
    /\ eng = new_engine(0)
    /\ venue = new_venue
    /\ \E b \in Budgets : aux = [new_aux EXCEPT !.budget = b]

\* main(): construction, initialize_session up to _rearm_stops
Start ==
    /\ pc = "down"
    /\ aux.starts < aux.budget.starts
    /\ LET s == [Prep(stopped(State)) EXCEPT
                    !.sm = load_state(file_of("valid", sm)).state,
                    !.aux.starts = @ + 1,
                    !.aux.recon = no_recon]
       IN \E r \in initialize_session(s) : Becomes(r)

\* one trade of _rearm_stops
RearmStep ==
    /\ pc = "rearm"
    /\ \E r \in rearm_one(Prep(State)) : Becomes(continue_rearm(r))

\* the scheduler calls run_loop; a tick starts at least TickGapSeconds after
\* the one before
Tick ==
    /\ pc = "idle"
    /\ ~aux.tick_ended
    /\ \E r \in run_loop([Prep(State) EXCEPT !.aux.found_closed = {},
                                               !.aux.recon = no_recon]) : Becomes(r)

\* one trade of _manage_exits
ManageExit ==
    /\ pc = "exits"
    /\ LET s == [Prep(State) EXCEPT !.eng.todo = Tail(@)]
       IN \E r \in Bind(manage_one(s, Head(eng.todo)), continue_tick) : Becomes(r)

\* one symbol of _scan_for_entries
ScanSymbol ==
    /\ pc = "scan"
    /\ \E r \in scan_symbol(Prep(State)) : Becomes(continue_scan(r))

\* main.signal_handler: graceful_shutdown, then sys.exit
Shutdown ==
    /\ pc = "idle"
    /\ Becomes(continue_rearm(rearm_begin(Prep(State), "exit")))

\* the signal arrives while _manage_exits is in _exit_trade, after
\* close_position has returned (line 704) and before remove_trade (line 735):
\* the handler runs graceful_shutdown on the thread of the tick and the
\* process exits; the rest of _exit_trade never runs
signal_in_exit(s, id) ==
    LET symbol == s.sm.active_trades[id].symbol
        s1 == Mark([Called(s) EXCEPT !.venue.pos[symbol] = 0], "signal_in_exit")
    IN continue_rearm(rearm_begin(s1, "exit"))

\* main.signal_handler during a tick, at a trade that _manage_exits closes
ShutdownInExit ==
    /\ pc = "exits"
    /\ aux.budget.midtick
    /\ LET s == [Prep(State) EXCEPT !.eng.todo = Tail(@)]
           id == Head(eng.todo)
       IN /\ \E r \in manage_one(s, id) : r.aux.last = "exit"
          /\ Becomes(signal_in_exit(s, id))

\* the venue executes a protective order of the symbol
StopFill(symbol) ==
    /\ venue.pos[symbol] # 0
    /\ \E o \in DOMAIN venue.stops :
        /\ venue.stops[o] = symbol
        /\ venue' = [venue EXCEPT !.pos[symbol] = 0, !.stops = Del(@, o)]
    /\ UNCHANGED <<pc, sm, rm, om, eng, aux>>

\* the venue fills the rest of an entry order
PendingFill(symbol) ==
    /\ venue.pending[symbol] # 0
    /\ venue' = [venue EXCEPT !.pos[symbol] = @ + venue.pending[symbol],
                              !.pending[symbol] = 0]
    /\ UNCHANGED <<pc, sm, rm, om, eng, aux>>

Older(t) == IF t = NoTime THEN t ELSE Min2(t + TickGapSeconds, MaxAge)

\* the wait of the scheduler between two ticks
TimePasses ==
    /\ pc = "idle"
    /\ aux.tick_ended
    /\ om' = [om EXCEPT !.last_error_time = Older(@)]
    /\ aux' = [aux EXCEPT !.tick_ended = FALSE, !.found_closed = {},
                          !.last = "none", !.venue_called = FALSE,
                          !.new_stop = NoStop, !.breaker = "none",
                          !.stop_hit = FALSE,
                          !.err_ages = [i \in DOMAIN @ |-> Older(@[i])]]
    /\ UNCHANGED <<pc, sm, rm, eng, venue>>

\* midnight, while no process runs or in the wait of the scheduler before
\* a tick; the date is read by reset_for_new_session only, at a start
NewDay ==
    /\ \/ pc = "down"
       \/ pc = "idle" /\ ~aux.tick_ended /\ aux.budget.overnight
    /\ sm.last_session_date = "today"
    /\ sm' = [sm EXCEPT !.last_session_date = "past"]
    /\ aux' = [aux EXCEPT !.streak = 0]
    /\ UNCHANGED <<pc, rm, om, eng, venue>>

Next ==
    \/ Start
    \/ RearmStep
    \/ Tick
    \/ ManageExit
    \/ ScanSymbol
    \/ Shutdown
    \/ ShutdownInExit
    \/ \E symbol \in Symbols : StopFill(symbol)
    \/ \E symbol \in Symbols : PendingFill(symbol)
    \/ TimePasses
    \/ NewDay

Spec == Init /\ [][Next]_vars

-----------------------------------------------------------------------------
(* Properties *)

Ledger == sm.active_trades
LedgerIds == DOMAIN sm.active_trades
\* trades of the ledger that are still in it after the step
Surviving == DOMAIN sm.active_trades \cap DOMAIN sm'.active_trades
\* the sum of the open risk of the Trades of the ledger
OpenRisk == SumValues([id \in LedgerIds |-> Ledger[id].risk_amount])
\* the protective orders of a symbol that are live at the venue
LiveStops(symbol) == {o \in DOMAIN venue.stops : venue.stops[o] = symbol}
\* a tick has just returned
TickEnded == pc = "idle" /\ aux.tick_ended
\* a step that is a whole tick: run_loop called and returned
WholeTick == pc = "idle" /\ ~aux.tick_ended /\ pc' = "idle" /\ aux'.tick_ended
\* seconds between the oldest and the newest of the last
\* KILL_SWITCH_ERROR_COUNT tracked errors
ErrorSpan(ages) == IF ages = <<>> THEN 0 ELSE ages[1] - ages[Len(ages)]

\* C1: after every entry approval the open risk of all Trades of the ledger
\* is at most equity * TOTAL_OPEN_RISK_CAP.
C1_OpenRiskWithinCap ==
    aux.last = "entry" => OpenRisk * Scale <= eng.equity * TOTAL_OPEN_RISK_CAP

\* C1: an entry was approved while another Trade was open
C1_Witness == aux.last = "entry" /\ Cardinality(LedgerIds) = 2

\* C2: no tick ends with the tracked error count at or above
\* KILL_SWITCH_ERROR_COUNT and the kill switch inactive.
C2_ThresholdTripsKillSwitch ==
    (TickEnded /\ om.error_count >= KILL_SWITCH_ERROR_COUNT)
        => sm.kill_switch_active

\* C2: a tick ends with the count at the threshold and the kill switch set
C2_Witness ==
    TickEnded /\ om.error_count >= KILL_SWITCH_ERROR_COUNT /\ sm.kill_switch_active

C4_TripOnlyWithinWindow ==
    [][(~sm.kill_switch_active /\ sm'.kill_switch_active)
        => ErrorSpan(aux'.err_ages) <= KILL_SWITCH_WINDOW_MINUTES * 60]_vars

\* C4: the kill switch is set by errors that lie within the window
C4_Witness ==
    /\ aux.last = "kill"
    /\ Len(aux.err_ages) = KILL_SWITCH_ERROR_COUNT
    /\ ErrorSpan(aux.err_ages) <= KILL_SWITCH_WINDOW_MINUTES * 60

\* C5: no entry is submitted in a tick when the realized P&L is already at or
\* past -MAX_DAILY_LOSS * start equity.
C5_NoEntryPastDailyLoss ==
    aux.last \in {"entry", "entry_pending"} => ~daily_loss_limit_hit(rm)

\* C5: the daily loss limit is hit and the book is flattened and paused
C5_Witness ==
    /\ TickEnded
    /\ daily_loss_limit_hit(rm)
    /\ rm.paused_until_next_session
    /\ sm.paused_until_next_session
    /\ LedgerIds = {}

\* C6: a Trade that a tick finds fully closed at the venue is out of the
\* ledger when that tick returns.
C6_ClosedTradeRemovedInTick ==
    TickEnded => aux.found_closed \cap LedgerIds = {}

\* C6: a tick found a Trade closed at the venue
C6_Witness == TickEnded /\ aux.found_closed # {}

\* C7: each open Trade has at most one protective order live at the venue,
\* also after a stop update whose cancel failed.
C7_OneProtectiveOrder ==
    \A id \in LedgerIds : Cardinality(LiveStops(Ledger[id].symbol)) <= 1

\* C7: a stop update has replaced the protective order of a Trade
C7_Witness ==
    /\ aux.last = "stop_updated"
    /\ \A id \in LedgerIds : Cardinality(LiveStops(Ledger[id].symbol)) = 1

\* C8: the recorded quantity of a Trade never increases.
C8_QuantityNeverIncreases ==
    [][\A id \in Surviving :
        sm'.active_trades[id].qty <= sm.active_trades[id].qty]_vars

\* C8: a partial take has reduced the recorded quantity of a Trade
C8_Witness ==
    /\ aux.last = "partial"
    /\ \E id \in LedgerIds : Ledger[id].partial_taken /\ Ledger[id].qty = 2

\* C9: the recorded stop of a Trade moves only to a strictly more favourable
\* price (up for a long, down for a short), and a step of _manage_exits
\* touches the protective orders of a Trade it keeps only when the stop it
\* recomputed is strictly more favourable than the recorded one.
C9_StopOnlyRatchets ==
    [][\A id \in Surviving :
        LET old == sm.active_trades[id]
            new == sm'.active_trades[id]
            long == old.side = "long"
        IN /\ new.stop_price # old.stop_price
                => /\ long => new.stop_price > old.stop_price
                   /\ ~long => new.stop_price < old.stop_price
           /\ ( /\ pc = "exits"
                /\ id = Head(eng.todo)
                /\ eng'.todo = Tail(eng.todo)
                /\ \/ venue'.stops # venue.stops
                   \/ sm'.pending_stops # sm.pending_stops )
                => /\ aux'.new_stop # NoStop
                   /\ long => aux'.new_stop > old.stop_price
                   /\ ~long => aux'.new_stop < old.stop_price]_vars

\* C9: the stop of a short Trade has been moved down
C9_Witness ==
    /\ aux.last = "stop_updated"
    /\ \E id \in LedgerIds :
        /\ Ledger[id].side = "short"
        /\ Ledger[id].stop_price = aux.new_stop
        /\ Ledger[id].stop_price < Ledger[id].entry_price

ReconcileStep == pc = "down" /\ aux'.starts = aux.starts + 1 /\ aux'.recon.ran
SymbolsOf(trades) == {trades[id].symbol : id \in DOMAIN trades}

\* C11: reconciliation lists every position the venue reported for which the
\* ledger holds no Trade as missing_in_state, and the ledger it leaves holds
\* no Trade that was not there before, each as it was.
C11_UntrackedPositionReported ==
    [][ReconcileStep =>
        /\ aux'.recon.missing_in_state
                = aux'.recon.broker \ SymbolsOf(sm.active_trades)
        /\ DOMAIN sm'.active_trades \subseteq DOMAIN sm.active_trades
        /\ \A id \in DOMAIN sm'.active_trades :
                sm'.active_trades[id] = sm.active_trades[id]]_vars

\* C11: a reconciliation has returned with an untracked position in its
\* report and no Trade for it in the ledger
C11_Witness ==
    /\ aux.recon.returned
    /\ aux.recon.missing_in_state # {}
    /\ aux.recon.missing_in_state \cap SymbolsOf(sm.active_trades) = {}
    /\ \A x \in aux.recon.missing_in_state : venue.pos[x] # 0

\* C12: every reconciliation returns, leaves in the ledger only Trades whose
\* instrument the venue reported, and lists each Trade it removed as
\* missing_in_broker.
C12_StaleTradesPurged ==
    [][ReconcileStep =>
        /\ aux'.recon.returned
        /\ SymbolsOf(sm'.active_trades) \subseteq aux'.recon.broker
        /\ (DOMAIN sm.active_trades) \ (DOMAIN sm'.active_trades)
                \subseteq aux'.recon.missing_in_broker]_vars

\* C12: a reconciliation has removed one stale Trade, has not returned, and
\* has left another stale Trade in the ledger
C12_Witness ==
    /\ pc = "down"
    /\ aux.recon.ran
    /\ ~aux.recon.returned
    /\ aux.recon.missing_in_broker # {}
    /\ stale_trades(State, aux.recon.broker) # {}

\* the Trades whose instrument the venue reported with a quantity other than
\* the recorded one (a short position is reported with a negative quantity)
Mismatched(trades, broker_symbols) ==
    {id \in DOMAIN trades :
        /\ trades[id].symbol \in broker_symbols
        /\ trades[id].qty # Abs(venue.pos[trades[id].symbol])}

\* C13: reconciliation lists as a quantity mismatch every instrument that is
\* in the ledger and at the venue with different quantities.
C13_QuantityMismatchReported ==
    [][ReconcileStep =>
        \A id \in Mismatched(sm.active_trades, aux'.recon.broker) :
            sm.active_trades[id].symbol \in aux'.recon.qty_mismatch]_vars

\* C13: a reconciliation has returned while the venue holds a quantity other
\* than the recorded one for a Trade of the ledger
C13_Witness ==
    /\ aux.recon.returned
    /\ pc \in {"rearm", "idle"}
    /\ Mismatched(sm.active_trades, aux.recon.broker) # {}
    /\ aux.recon.qty_mismatch = {}

\* a reconciliation that follows another with no tick in between and is given
\* the same venue positions
SecondReconcile ==
    ReconcileStep /\ aux.recon.ran /\ aux'.recon.broker = aux.recon.broker

\* C14: the second of two reconciliations in a row on the same venue positions
\* leaves the ledger as it found it and reports no discrepancy the first had
\* not found.
C14_ReconciliationIdempotent ==
    [][SecondReconcile =>
        /\ sm'.active_trades = sm.active_trades
        /\ aux'.recon.missing_in_broker \subseteq aux.recon.missing_in_broker
        /\ aux'.recon.missing_in_state \subseteq aux.recon.missing_in_state
        /\ aux'.recon.qty_mismatch \subseteq aux.recon.qty_mismatch]_vars

\* C14: a second reconciliation in a row has removed a Trade the first one,
\* given the same venue positions, had left in the ledger
C14_Witness ==
    /\ pc = "down"
    /\ aux.starts = MaxStarts + 1
    /\ aux.recon.ran
    /\ aux.recon.missing_in_broker = {2}
    /\ aux.recon.broker = {}
    /\ sm.active_trades = Empty

\* the Trade has exactly one stop order live at the venue, and it is the one
\* the ledger records for its instrument, at the Trade's stop price
Protected(trade, pending_stops, stops) ==
    LET symbol == trade.symbol
    IN /\ symbol \in DOMAIN pending_stops
       /\ pending_stops[symbol].stop_price = trade.stop_price
       /\ {o \in DOMAIN stops : stops[o] = symbol} = {pending_stops[symbol].order_id}

\* the step in which initialize_session returns True to main()
InitDone == pc \in {"down", "rearm"} /\ pc' = "idle"

\* C15: when session initialization has finished, every Trade of the ledger
\* has one live protective order at its recorded stop price and no other stop
\* order for its instrument is live.
C15_RearmedAfterInit ==
    [][InitDone =>
        \A id \in DOMAIN sm'.active_trades :
            Protected(sm'.active_trades[id], sm'.pending_stops, venue'.stops)]_vars

\* C15: an initialization has finished with a Trade in the ledger, and
\* every Trade has its protective order re-armed
C15_Witness ==
    /\ pc = "idle"
    /\ aux.recon.returned
    /\ LedgerIds # {}
    /\ \A id \in LedgerIds : Protected(Ledger[id], sm.pending_stops, venue.stops)

\* the RiskManager a restart builds: RiskManager() followed by the
\* initialize_day of initialize_session; nothing reads risk state from the file
Restored(equity) ==
    initialize_day([State EXCEPT !.rm = new_risk_manager], equity).rm

\* C16: at every tick boundary the risk state in memory (realized P&L,
\* consecutive losses, peak equity, paused flag, open-risk map) is the one a
\* crash and restart would restore.
C16_RiskStateDurable ==
    TickEnded =>
        LET r == Restored(eng.equity)
        IN /\ r.daily_pnl = rm.daily_pnl
           /\ r.consecutive_losses = rm.consecutive_losses
           /\ r.peak_equity = rm.peak_equity
           /\ r.paused_until_next_session = rm.paused_until_next_session
           /\ r.trade_risk = rm.trade_risk

\* C16: a tick has ended with a realized loss and a consecutive loss counted
\* while a Trade with registered risk is still open
C16_Witness ==
    /\ TickEnded
    /\ rm.daily_pnl < 0
    /\ rm.consecutive_losses = 1
    /\ DOMAIN rm.trade_risk # {}

\* a step in which the scheduler calls run_loop
TickBegins ==
    /\ pc = "idle"
    /\ ~aux.tick_ended
    /\ aux'.tick_ended \/ pc' \in {"exits", "scan"}

\* the book was flattened and paused by the daily-loss limit
PausedByDailyLoss ==
    /\ daily_loss_limit_hit(rm)
    /\ rm.paused_until_next_session
    /\ sm.paused_until_next_session

\* C18: a tick that begins after the trading date advanced and finds the
\* market open, in a process paused by the daily-loss limit, finds the pause
\* cleared and the daily loss reset, so that entries are permitted; a set
\* kill switch stays set.
C18_DailyPauseClearsAtRollover ==
    [][(TickBegins /\ sm.last_session_date = "past" /\ PausedByDailyLoss
            /\ aux'.venue_called) =>
            /\ ~rm'.paused_until_next_session
            /\ ~daily_loss_limit_hit(rm')
            /\ sm.kill_switch_active => sm'.kill_switch_active]_vars

\* C18: a tick has run after midnight in a process paused by the daily-loss
\* limit the day before
C18_Witness ==
    /\ TickEnded
    /\ sm.last_session_date = "past"
    /\ PausedByDailyLoss
    /\ ~sm.kill_switch_active
    /\ aux.venue_called

\* C19: while the risk manager's circuit breaker is active no entry order is
\* submitted and no scan begins, and a tick whose evaluation leaves the
\* breaker active goes on to manage the exits of every Trade of the ledger.
C19_BreakerBlocksEntriesOnly ==
    [][/\ rm'.circuit_breaker_active =>
            /\ venue'.entries = venue.entries
            /\ aux'.last \notin {"entry", "entry_pending"}
            /\ pc' # "scan"
       /\ (TickBegins /\ aux'.breaker # "none" /\ rm'.circuit_breaker_active
                /\ LedgerIds # {}) =>
            /\ pc' = "exits"
            /\ eng'.todo = SortedSeq(LedgerIds)
            /\ sm'.active_trades = sm.active_trades]_vars

\* C19: the breaker tripped in this tick and the exits of an open Trade are
\* being managed
C19_Witness ==
    /\ pc = "exits"
    /\ aux.breaker = "tripped"
    /\ rm.circuit_breaker_active
    /\ eng.todo # <<>>
    /\ Head(eng.todo) \in LedgerIds

\* C20: after an evaluation that found both measures within thresholds,
\* neither the risk manager's nor the persisted circuit-breaker flag is
\* active.
C20_BreakerClearsWhenCalm ==
    aux.breaker = "calm" =>
        /\ ~rm.circuit_breaker_active
        /\ ~sm.circuit_breaker_active

\* C20: a calm evaluation followed a trip; the scan for entries runs while
\* the persisted flag is still set
C20_Witness ==
    /\ pc = "scan"
    /\ aux.breaker = "calm"
    /\ ~rm.circuit_breaker_active
    /\ sm.circuit_breaker_active

\* a step in which the venue accepts an entry order
EntrySubmitted == venue'.entries = venue.entries + 1
\* the instruments with an open position at the venue
Held == {x \in Symbols : venue.pos[x] # 0}

\* C21: an entry order is submitted only while neither pause flag is set,
\* the circuit breaker is not active and fewer than
\* MAX_CONCURRENT_POSITIONS positions are open.
C21_EntryOnlyWhenPermitted ==
    [][EntrySubmitted =>
            /\ ~sm.paused_until_next_session
            /\ ~rm.paused_until_next_session
            /\ ~rm.circuit_breaker_active
            /\ Cardinality(Held) < MAX_CONCURRENT_POSITIONS]_vars

\* C21: an entry order has been submitted by a scan in which the kill
\* switch had tripped and paused the process
C21_Witness ==
    /\ aux.last \in {"entry", "entry_pending"}
    /\ sm.kill_switch_active
    /\ sm.paused_until_next_session
    /\ venue.entries = 1

\* the instruments whose position or pending quantity at the venue the step
\* changes
Touched ==
    {x \in Symbols : venue'.pos[x] + venue'.pending[x] # venue.pos[x] + venue.pending[x]}

\* C22: the instrument of a submitted entry order has no Trade in the
\* ledger, no position at the venue and no pending entry order.
C22_NoEntryForHeldInstrument ==
    [][EntrySubmitted =>
            \A x \in Touched :
                /\ x \notin SymbolsOf(sm.active_trades)
                /\ venue.pos[x] = 0
                /\ venue.pending[x] = 0]_vars

\* C22: two entry orders have been submitted, neither was filled when the
\* engine looked, and one instrument has a pending quantity while the other
\* has nothing
C22_Witness ==
    /\ aux.last = "entry_pending"
    /\ venue.entries = 2
    /\ eng.trade_counter = 0
    /\ \E x \in Symbols :
            /\ venue.pending[x] # 0
            /\ \A y \in Symbols \ {x} : venue.pos[y] = 0 /\ venue.pending[y] = 0

\* the scan has just submitted an entry order and has instruments left
AfterEntryInScan ==
    /\ pc = "scan"
    /\ eng.scan # <<>>
    /\ aux.last \in {"entry", "entry_pending"}
\* the instrument the scan visited last
Visited == Universe[Len(Universe) - Len(eng.scan)]

\* C23: when the scan submits an entry order right after the entry order of
\* another instrument, the open risk and the positions it gates on contain
\* that instrument.
C23_BudgetsIncludeEarlierEntry ==
    [][(AfterEntryInScan /\ EntrySubmitted) =>
            /\ Visited \in DOMAIN rm.trade_risk
            /\ Visited \in DOMAIN eng.positions]_vars

\* C23: the entry order of the first instrument was submitted and is not
\* filled; the scan is about to gate the second instrument on an open risk
\* and on positions without the first
C23_Witness ==
    /\ AfterEntryInScan
    /\ aux.last = "entry_pending"
    /\ venue.pending[Visited] # 0
    /\ Visited \notin DOMAIN rm.trade_risk
    /\ Visited \notin DOMAIN eng.positions

\* a step of _manage_exits in which the try block raised
ExitRaised == pc = "exits" /\ eng' # eng /\ aux'.last = "exit_error"

\* C24: when managing the exit of a Trade raises, the loop goes on with the
\* other Trades and the ledger is as it was, and after the last Trade the
\* tick goes on to the flat rule (which alone may empty the ledger) and the
\* scan.
C24_ExitErrorIsLocal ==
    [][ExitRaised =>
            /\ eng'.todo = Tail(eng.todo)
            /\ \/ sm'.active_trades = sm.active_trades
               \/ /\ eng'.todo = <<>>
                  /\ pc' = "idle"
                  /\ sm'.active_trades = Empty
                  /\ sm'.paused_until_next_session
            /\ \A i \in 1 .. Len(eng'.todo) : eng'.todo[i] \in LedgerIds
            /\ IF eng'.todo # <<>> THEN pc' = "exits" ELSE pc' \in {"scan", "idle"}
            /\ sm'.kill_switch_active = sm.kill_switch_active]_vars

\* C24: managing the exit of the last of two Trades raised and the tick
\* has reached the scan
C24_Witness ==
    /\ pc = "scan"
    /\ aux.last = "exit_error"
    /\ Cardinality(LedgerIds) = 2

\* a step of _manage_exits that sells a part of the position of the Trade it
\* manages: a partial-take order
PartialTake ==
    /\ pc = "exits"
    /\ eng' # eng
    /\ LET x == Ledger[Head(eng.todo)].symbol
       IN 0 < Abs(venue'.pos[x]) /\ Abs(venue'.pos[x]) < Abs(venue.pos[x])

C26_ConsecutiveLossCount ==
    pc \in {"rearm", "idle", "exits", "scan"} => rm.consecutive_losses = aux.streak

\* C26: a process started on the day of a losing trade, after it
C26_Witness ==
    /\ pc = "idle"
    /\ aux.starts = 2
    /\ sm.last_session_date = "today"
    /\ aux.streak = 1
    /\ rm.consecutive_losses = 0

-----------------------------------------------------------------------------
(* Loading the state file: StateManager() on files of every kind *)

FileKinds == {"absent", "unreadable", "garbled", "valid"}

\* a Trade as a state file holds it
SavedTrade ==
    [ symbol |-> "AAPL", side |-> "long", entry_price |-> 200, qty |-> 1,
      stop_price |-> 190, risk_amount |-> 30, vol_regime |-> "normal",
      partial_taken |-> FALSE ]

\* the states a process can have saved
SavedStates ==
    { [default_state EXCEPT !.active_trades = trades,
                            !.pending_stops = stops,
                            !.last_session_date = day,
                            !.kill_switch_active = kill,
                            !.paused_until_next_session = paused,
                            !.circuit_breaker_active = breaker]
        : trades \in {Empty, [id \in {1} |-> SavedTrade]},
          stops \in {Empty, [x \in {"AAPL"} |-> [order_id |-> 1, stop_price |-> 190]]},
          day \in {"today", "past"},
          kill \in BOOLEAN, paused \in BOOLEAN, breaker \in BOOLEAN }

\* before StateManager() there is no state in memory; aux holds the file
LoadInit ==
    /\ pc = "down"
    /\ sm = Empty
    /\ rm = new_risk_manager
    /\ om = new_order_manager
    /\ eng = new_engine(0)
    /\ venue = new_venue
    /\ \E kind \in FileKinds, content \in SavedStates :
            aux = [file |-> file_of(kind, content)]

\* StateManager.__init__
LoadState ==
    /\ pc = "down"
    /\ LET r == load_state(aux.file)
       IN /\ pc' = IF r.raised THEN "failed" ELSE "init"
          /\ sm' = r.state
    /\ UNCHANGED <<rm, om, eng, venue, aux>>

\* the first statement of initialize_session, on the loaded state
ResetSession ==
    /\ pc = "init"
    /\ sm' = reset_for_new_session(State).sm
    /\ pc' = "loaded"
    /\ UNCHANGED <<rm, om, eng, venue, aux>>

LoadNext == LoadState \/ ResetSession

LoadSpec == LoadInit /\ [][LoadNext]_vars

\* C17: loading never fails, and a state file that is absent, cannot be read
\* or cannot be parsed gives the empty default state.
C17_LoadYieldsDefault ==
    /\ pc # "failed"
    /\ (pc = "init" /\ aux.file.kind # "valid") => sm = default_state

\* C17: a file that held a Trade and a set kill switch could not be parsed,
\* and the process has the default state
C17_Witness ==
    /\ pc = "init"
    /\ aux.file.kind = "garbled"
    /\ aux.file.content.kill_switch_active
    /\ aux.file.content.active_trades # Empty
    /\ sm = default_state

\* C29: exit management takes a Trade for closed by its stop only when the
\* venue holds no position for the Trade's instrument.
C29_ClosedOnlyWhenPositionGone ==
    [][(pc = "exits" /\ eng' # eng /\ aux'.stop_hit) =>
            venue.pos[Ledger[Head(eng.todo)].symbol] = 0]_vars

\* C29: a Trade was taken for closed by its stop in a tick that found no
\* position gone, and its position was liquidated and its exit recorded
C29_Witness ==
    /\ aux.stop_hit
    /\ aux.last = "exit"
    /\ aux.found_closed = {}
    /\ LedgerIds = {}
    /\ \A x \in Symbols : venue.pos[x] = 0

-----------------------------------------------------------------------------
(* The retry wrapper of the order manager and its callers *)

MAX_RETRIES == 3
\* seconds before the second, third and (never used) fourth attempt
RETRY_DELAYS == <<1, 2, 4>>
\* random.uniform(0, RETRY_JITTER_MAX) at its two ends, in tenths of a second
Jitters == {0, 5}

\* the methods of OrderManager that call the venue through the wrapper
Operations ==
    { "get_account", "get_positions", "get_position", "submit_market_order",
      "submit_limit_order", "submit_stop_order", "submit_trailing_stop_order",
      "get_order", "get_open_orders", "cancel_order", "cancel_all_orders",
      "close_position", "close_all_positions" }

\* what the except clause of the method returns
failure_value(op) ==
    IF op = "get_account" THEN "{}"
    ELSE IF op \in {"get_positions", "get_open_orders"} THEN "[]"
    ELSE IF op \in {"cancel_order", "cancel_all_orders", "close_all_positions"}
    THEN "False"
    ELSE "None"

\* whether the except clause of the method calls _track_error
tracks_error(op) ==
    op \in { "get_account", "get_positions", "submit_market_order",
             "submit_limit_order", "submit_stop_order",
             "submit_trailing_stop_order" }

\* a wrapper that sleeps and tries again after every failure
retry_attempt_unbounded(attempt, ok) == IF ok THEN "returned" ELSE "sleep"

\* OrderManager._retry_with_backoff, one pass of the loop for attempt
\* 0 .. MAX_RETRIES - 1: where the call is after func returned or raised
retry_attempt(attempt, ok) ==
    IF ok THEN "returned"
    ELSE IF attempt = MAX_RETRIES - 1 THEN "raised"
    ELSE "sleep"

\* a method has just called the wrapper; the error counter is at any value
\* below the kill-switch threshold
RetryInit ==
    /\ pc = "call"
    /\ sm = default_state
    /\ rm = new_risk_manager
    /\ \E n \in 0 .. KILL_SWITCH_ERROR_COUNT - 1 :
        /\ om = IF n = 0 THEN new_order_manager
                ELSE [error_count |-> n, last_error_time |-> 0]
        /\ \E op \in Operations :
            aux = [ op |-> op, attempt |-> 0, invoked |-> 0, slept |-> 0,
                    result |-> "pending", errors_before |-> n,
                    err_ages |-> [i \in 1 .. n |-> 0] ]
    /\ eng = new_engine(0)
    /\ venue = new_venue

\* lines 55-59: func is invoked and returns or raises
Invoke ==
    /\ pc = "call"
    /\ \E ok \in BOOLEAN :
        /\ pc' = retry_attempt(aux.attempt, ok)
        /\ aux' = [aux EXCEPT !.invoked = @ + 1,
                              !.result = IF ok THEN "value" ELSE @]
    /\ UNCHANGED <<sm, rm, om, eng, venue>>

\* lines 60-62: the delay of this attempt plus jitter, then the next attempt
Backoff ==
    /\ pc = "sleep"
    /\ \E j \in Jitters :
        aux' = [aux EXCEPT !.slept = @ + RETRY_DELAYS[aux.attempt + 1] * 10 + j,
                           !.attempt = @ + 1]
    /\ pc' = "call"
    /\ UNCHANGED <<sm, rm, om, eng, venue>>

\* the except clause of the calling method
Caught ==
    /\ pc = "raised"
    /\ pc' = "returned"
    /\ aux' = [aux EXCEPT !.result = failure_value(aux.op),
                          !.err_ages = IF tracks_error(aux.op)
                                       THEN track_error(State).aux.err_ages ELSE @]
    /\ om' = IF tracks_error(aux.op) THEN track_error(State).om ELSE om
    /\ UNCHANGED <<sm, rm, eng, venue>>

RetryNext == Invoke \/ Backoff \/ Caught

\* the call runs on the engine's thread, which nothing suspends
RetrySpec == RetryInit /\ [][RetryNext]_vars /\ WF_vars(RetryNext)

\* the retries are exhausted and the method has returned its failure value
Exhausted == pc = "returned" /\ aux.result # "value"

\* C27: a call through the wrapper invokes the venue operation at most
\* MAX_RETRIES times and not again after a success, returns to the engine
\* in every run, and after MAX_RETRIES failures returns the failure value of
\* the method.
C27_RetryBoundedAndLocal ==
    /\ [](/\ aux.invoked <= MAX_RETRIES
          /\ aux.result = "value" => pc = "returned"
          /\ Exhausted => /\ aux.invoked = MAX_RETRIES
                          /\ aux.result = failure_value(aux.op))
    /\ <>(pc = "returned")

\* C27: submit_market_order has returned None after MAX_RETRIES failed
\* attempts and two delays
C27_Witness ==
    /\ Exhausted
    /\ aux.op = "submit_market_order"
    /\ aux.invoked = MAX_RETRIES
    /\ aux.result = "None"
    /\ aux.slept >= 30

\* C28: when a venue operation has exhausted its retries the tracked error
\* counter is one higher than before the call.
C28_ExhaustedRetriesTracked ==
    Exhausted => om.error_count = aux.errors_before + 1

\* C28: get_position has exhausted its retries and the error counter is
\* what it was
C28_Witness ==
    /\ Exhausted
    /\ aux.op = "get_position"
    /\ aux.invoked = MAX_RETRIES
    /\ om.error_count = aux.errors_before

\* the step in which the signal handler calls graceful_shutdown
ShutdownBegins ==
    /\ pc \in {"idle", "exits"}
    /\ \/ pc' = "rearm" /\ eng'.after = "exit"
       \/ pc' = "down"

\* C31: graceful_shutdown starts on a ledger that agrees with the venue as
\* far as the tick is concerned: no Trade that is in the ledger when the
\* shutdown saves and re-arms had its position closed by the engine in the
\* step the shutdown interrupted.
C31_ShutdownNotInHalfTick ==
    [][ShutdownBegins =>
        \A id \in DOMAIN sm'.active_trades :
            LET x == sm'.active_trades[id].symbol
            IN venue.pos[x] # 0 => venue'.pos[x] # 0]_vars

\* C31: the process has exited after a shutdown that interrupted
\* _exit_trade: the Trade is in the saved ledger, its position is closed,
\* and a protective order for it was re-armed
C31_Witness ==
    /\ pc = "down"
    /\ \E id \in LedgerIds :
        /\ venue.pos[Ledger[id].symbol] = 0
        /\ venue.pending[Ledger[id].symbol] = 0
        /\ Protected(Ledger[id], sm.pending_stops, venue.stops)
    /\ aux.starts = 1
    /\ aux.budget.midtick
    /\ aux.found_closed = {}

\* C35: whenever the engine is between two ticks (a tick or a session
\* initialization has returned), the instruments with a registered open
\* risk are the instruments with a Trade in the ledger.
C35_RiskMapMatchesLedger ==
    pc = "idle" => DOMAIN rm.trade_risk = SymbolsOf(sm.active_trades)

\* C35: a restarted process has initialized its session with a Trade in
\* the ledger and its position at the venue, and no risk is registered
C35_Witness ==
    /\ pc = "idle"
    /\ aux.starts = 2
    /\ ~aux.tick_ended
    /\ \E id \in LedgerIds : venue.pos[Ledger[id].symbol] # 0
    /\ rm.trade_risk = Empty

\* the venue fills an entry order after the fill check of _execute_entry
LateFill(x) ==
    /\ venue.pending[x] # 0
    /\ venue'.pending[x] = 0
    /\ venue'.pos[x] # venue.pos[x]

\* C36: when an entry order fills after the fill check, the position it
\* makes has a Trade in the ledger, a live protective order and a
\* registered risk.
C36_LateFillIsTracked ==
    [][\A x \in Symbols : LateFill(x) =>
        /\ x \in SymbolsOf(sm'.active_trades)
        /\ \E o \in DOMAIN venue'.stops : venue'.stops[o] = x
        /\ x \in DOMAIN rm'.trade_risk]_vars

\* C36: an entry order filled late, the process was restarted, and after
\* the initialization that saw the position at the venue it still has no
\* Trade, no protective order and no registered risk
C36_Witness ==
    /\ pc = "idle"
    /\ aux.starts = 2
    /\ aux.recon.returned
    /\ \E x \in aux.recon.missing_in_state :
        /\ venue.pos[x] # 0
        /\ x \notin SymbolsOf(sm.active_trades)
        /\ LiveStops(x) = {}
        /\ x \notin DOMAIN rm.trade_risk
    /\ venue.entries = 1
    /\ eng.trade_counter = 0

\* the step of _manage_exits in which _exit_trade closes the position of
\* the Trade and removes it, the engine having found the position open
StrategyExit ==
    /\ pc = "exits"
    /\ eng' # eng
    /\ ~aux'.stop_hit
    /\ Head(eng.todo) \in DOMAIN sm.active_trades
    /\ Head(eng.todo) \notin DOMAIN sm'.active_trades
    /\ venue.pos[sm.active_trades[Head(eng.todo)].symbol] # 0
    /\ venue'.pos[sm.active_trades[Head(eng.todo)].symbol] = 0

\* C37: after a strategy exit has closed a Trade, no stop order for its
\* instrument is live at the venue.
C37_StopCancelledOnExit ==
    [][StrategyExit =>
        \A o \in DOMAIN venue'.stops :
            venue'.stops[o] # sm.active_trades[Head(eng.todo)].symbol]_vars

\* C37: a strategy exit closed the only Trade in a run without a failed
\* venue call; the ledger has no stop record left and the stop order is
\* live at the venue
C37_Witness ==
    /\ aux.last = "exit"
    /\ ~aux.stop_hit
    /\ aux.failures = 0
    /\ LedgerIds = {}
    /\ sm.pending_stops = Empty
    /\ \A x \in Symbols : venue.pos[x] = 0
    /\ venue.stops # Empty

\* C38: a reconciliation removes a Trade from the ledger only if the
\* venue holds no position for its instrument.
C38_PurgeOnlyWithoutPosition ==
    [][ReconcileStep =>
        \A id \in (DOMAIN sm.active_trades) \ (DOMAIN sm'.active_trades) :
            venue.pos[sm.active_trades[id].symbol] = 0]_vars

\* C38: the position fetch of a session initialization failed, the
\* reconciliation took the empty list for the venue's positions and purged
\* a Trade whose position the venue holds
C38_Witness ==
    /\ aux.recon.ran
    /\ aux.recon.broker = {}
    /\ aux.recon.missing_in_broker # {}
    /\ aux.failures > 0
    /\ \E x \in Symbols :
        /\ venue.pos[x] # 0
        /\ x \notin SymbolsOf(sm.active_trades)
        /\ LiveStops(x) # {}

-----------------------------------------------------------------------------
(* The scheduler loop of main(): time in units of POLL_SECONDS *)

\* the clock stops here
MaxClock == 80
\* the period of the tick job, in polls
TickPeriod == (SCHEDULE_MINUTES * 60) \div POLL_SECONDS
\* how long a run of a job takes: at once, or longer than the tick period
Durations == {0, TickPeriod + 5}
\* when 21:05 falls after the start of the process
EodTimes == {TickPeriod, TickPeriod + 10}
\* the period of the end-of-day job is a day: past the clock
Period(job) == IF job = "tick" THEN TickPeriod ELSE MaxClock + 1

\* schedule.run_pending: the jobs that are due, in the order of their
\* next_run (the tick was registered first)
due_jobs(next, now) ==
    LET due == {j \in DOMAIN next : now >= next[j]}
    IN IF due = {"tick", "eod"}
       THEN IF next["eod"] < next["tick"] THEN <<"eod", "tick">> ELSE <<"tick", "eod">>
       ELSE IF due = {} THEN <<>> ELSE <<CHOOSE j \in due : TRUE>>

\* a scheduler that starts a job on a thread of its own and goes on
run_job_in_thread(a, job, d) ==
    [a EXCEPT !.running = @ \cup {[job |-> job, due |-> a.next[job],
                                    started |-> a.now, ends |-> a.now + d]},
              !.next[job] = a.now + Period(job),
              !.queue = Tail(@)]

\* Job.run: the job function is called on the thread of the loop, which is
\* inside it until it returns
run_job(a, job, d) ==
    [a EXCEPT !.running = @ \cup {[job |-> job, due |-> a.next[job],
                                    started |-> a.now, ends |-> a.now + d]},
              !.thread = "in_job"]

\* main() after initialize_session: both jobs are registered (lines 202,
\* 205) and run_trading_loop is about to be called directly (line 211)
SchedInit ==
    /\ pc = "idle"
    /\ sm = default_state
    /\ rm = new_risk_manager
    /\ om = new_order_manager
    /\ eng = new_engine(0)
    /\ venue = new_venue
    /\ \E e \in EodTimes :
        aux = [ now |-> 0, thread |-> "first", queue |-> <<>>, running |-> {},
                next |-> [j \in {"tick", "eod"} |->
                            IF j = "tick" THEN TickPeriod ELSE e],
                ticks |-> 0 ]

\* line 211: the initial run of the tick
FirstRun ==
    /\ aux.thread = "first"
    /\ \E d \in Durations :
        aux' = [aux EXCEPT !.running = {[job |-> "tick", due |-> 0,
                                         started |-> 0, ends |-> d]},
                           !.thread = "in_first", !.ticks = @ + 1]
    /\ UNCHANGED <<pc, sm, rm, om, eng, venue>>

\* lines 216-217 and run_pending: after the sleep the due jobs are collected
Poll ==
    /\ aux.thread = "sleep"
    /\ aux.now < MaxClock
    /\ aux' = [aux EXCEPT !.now = @ + 1,
                          !.queue = due_jobs(aux.next, aux.now + 1),
                          !.thread = "pending"]
    /\ UNCHANGED <<pc, sm, rm, om, eng, venue>>

\* run_pending: the next due job is run
StartJob ==
    /\ aux.thread = "pending"
    /\ aux.queue # <<>>
    /\ \E d \in Durations :
        aux' = [run_job(aux, Head(aux.queue), d) EXCEPT
                    !.ticks = IF Head(aux.queue) = "tick" THEN @ + 1 ELSE @]
    /\ UNCHANGED <<pc, sm, rm, om, eng, venue>>

\* a job function returns; Job.run then sets next_run from the time it is
\* (a directly called function is no job and sets nothing)
FinishJob ==
    /\ \E r \in aux.running :
        LET now == Max2(aux.now, r.ends)
            a1 == [aux EXCEPT !.now = now, !.running = @ \ {r}]
        IN aux' = IF aux.thread = "in_first" THEN [a1 EXCEPT !.thread = "sleep"]
                  ELSE IF aux.thread = "in_job"
                  THEN [a1 EXCEPT !.thread = "pending",
                                  !.next[r.job] = now + Period(r.job),
                                  !.queue = Tail(@)]
                  ELSE a1
    /\ UNCHANGED <<pc, sm, rm, om, eng, venue>>

\* run_pending returns and the loop sleeps
EndPending ==
    /\ aux.thread = "pending"
    /\ aux.queue = <<>>
    /\ aux' = [aux EXCEPT !.thread = "sleep"]
    /\ UNCHANGED <<pc, sm, rm, om, eng, venue>>

SchedNext == FirstRun \/ Poll \/ StartJob \/ FinishJob \/ EndPending

SchedSpec == SchedInit /\ [][SchedNext]_vars

\* C30: at most one job runs at any time, the loop starts none while one
\* runs, and a job starts only when it is due.
C30_TicksNeverOverlap ==
    /\ Cardinality(aux.running) <= 1
    /\ aux.running # {} => aux.thread \in {"in_first", "in_job"}
    /\ \A r \in aux.running : r.started >= r.due

\* C30: the initial tick ran longer than the tick period, and the first
\* scheduled tick runs now, after it was due
C30_Witness ==
    /\ aux.ticks = 2
    /\ \E r \in aux.running :
            /\ r.job = "tick"
            /\ r.due = TickPeriod
            /\ r.started > r.due

-----------------------------------------------------------------------------
(* The filter chain of _check_entry_signal *)

\* what the market data of one symbol says to each test of the chain
BarInputs ==
    [ empty : BOOLEAN, fresh : BOOLEAN,
      cross : {"bullish", "bearish", "none"},
      sma200 : {"above", "below"},
      market : {"bullish", "bearish", "neither"},
      gap : BOOLEAN, mtf_agrees : BOOLEAN, adx_ok : BOOLEAN, atr_ok : BOOLEAN,
      momentum_ok : BOOLEAN, chase_ok : BOOLEAN, liquid : BOOLEAN ]

\* trade_logger.log_shadow_signal: one row of the shadow sheet
shadow_row(signal_type, filtered_by) ==
    <<[signal_type |-> signal_type, filtered_by |-> filtered_by]>>

\* lines 361-410, 413-462 and 467-477: the tests of one direction after the
\* crossover, the 200 SMA and the market breadth let it through
direction_checks(b, signal_type) ==
    IF ~b.mtf_agrees
    THEN [signal |-> "None", shadow |-> shadow_row(signal_type, "15m trend disagrees")]
    ELSE IF ~b.adx_ok
    THEN [signal |-> "None", shadow |-> shadow_row(signal_type, "Low ADX")]
    ELSE IF ~b.atr_ok
    THEN [signal |-> "None", shadow |-> shadow_row(signal_type, "Low ATR%")]
    ELSE IF ~b.momentum_ok
    THEN [signal |-> "None",
          shadow |-> shadow_row(signal_type, "Momentum confirmation failed")]
    ELSE IF ~b.chase_ok
    THEN [signal |-> "None", shadow |-> shadow_row(signal_type, "Don't chase")]
    ELSE IF ~b.liquid
    THEN [signal |-> "None", shadow |-> shadow_row(signal_type, "Liquidity filter")]
    ELSE [signal |-> signal_type, shadow |-> <<>>]

\* TradingEngine._check_entry_signal: the Signal ("None" for none) and the
\* rows it writes to the shadow sheet
check_entry_signal(b) ==
    IF b.empty THEN [signal |-> "None", shadow |-> <<>>]
    ELSE IF ~b.fresh
    THEN [signal |-> "None", shadow |-> shadow_row("SKIP", "Stale data")]
    ELSE IF b.gap
    THEN [signal |-> "None",
          shadow |-> shadow_row(IF b.cross = "bullish" THEN "LONG" ELSE "SHORT",
                                "Gap filter")]
    ELSE IF b.cross = "bullish" /\ b.sma200 = "above" /\ b.market = "bullish"
    THEN direction_checks(b, "LONG")
    ELSE IF b.cross = "bearish" /\ b.sma200 = "below" /\ b.market = "bearish"
    THEN direction_checks(b, "SHORT")
    ELSE [signal |-> "None", shadow |-> <<>>]

\* _scan_for_entries has the bars of a symbol and has not evaluated them
FilterInit ==
    /\ pc = "bars"
    /\ sm = default_state
    /\ rm = new_risk_manager
    /\ om = new_order_manager
    /\ eng = new_engine(0)
    /\ venue = new_venue
    /\ \E b \in BarInputs : aux = [bars |-> b, signal |-> "None", shadow |-> <<>>]

\* _scan_for_entries line 251: the symbol is evaluated
CheckEntrySignal ==
    /\ pc = "bars"
    /\ pc' = "checked"
    /\ LET r == check_entry_signal(aux.bars)
       IN aux' = [aux EXCEPT !.signal = r.signal, !.shadow = r.shadow]
    /\ UNCHANGED <<sm, rm, om, eng, venue>>

FilterNext == CheckEntrySignal

FilterSpec == FilterInit /\ [][FilterNext]_vars

\* the first test of the chain that the data fails, in the order freshness,
\* crossover, long-term trend, market breadth, multi-timeframe, regime,
\* volatility floor, gap, momentum, don't-chase, liquidity
FirstFailing(b) ==
    LET long == b.cross = "bullish"
    IN IF ~b.fresh THEN "Stale data"
       ELSE IF b.cross = "none" THEN "No crossover"
       ELSE IF b.sma200 # (IF long THEN "above" ELSE "below") THEN "200 SMA"
       ELSE IF b.market # b.cross THEN "Market breadth"
       ELSE IF ~b.mtf_agrees THEN "15m trend disagrees"
       ELSE IF ~b.adx_ok THEN "Low ADX"
       ELSE IF ~b.atr_ok THEN "Low ATR%"
       ELSE IF b.gap THEN "Gap filter"
       ELSE IF ~b.momentum_ok THEN "Momentum confirmation failed"
       ELSE IF ~b.chase_ok THEN "Don't chase"
       ELSE IF ~b.liquid THEN "Liquidity filter"
       ELSE "none"

\* C32: an evaluated symbol that yields no Signal has exactly one row in
\* the shadow sheet, and the row names the first test of the chain order
\* that its data fails.
C32_OneRejectionNamingFirstFilter ==
    (pc = "checked" /\ ~aux.bars.empty /\ aux.signal = "None") =>
        /\ Len(aux.shadow) = 1
        /\ aux.shadow[1].filtered_by = FirstFailing(aux.bars)

\* C32: fresh bars without a crossover were evaluated, no gap, and nothing
\* was written to the shadow sheet
C32_Witness ==
    /\ pc = "checked"
    /\ ~aux.bars.empty /\ aux.bars.fresh /\ ~aux.bars.gap
    /\ aux.bars.cross = "none"
    /\ aux.signal = "None"
    /\ aux.shadow = <<>>

-----------------------------------------------------------------------------
(* indicators.detect_ema_crossover *)

\* the longest EMA series, and the values of a sample
MaxSamples == 3
EmaValues == {1, 2, 3}
\* an EMA series: the last element is the latest sample
EmaSeries == UNION {[1 .. n -> EmaValues] : n \in 0 .. MaxSamples}

\* a detection that takes a touch of the two lines before the bar for no
\* crossover
detect_ema_crossover_strict(fast_ema, slow_ema) ==
    IF Len(fast_ema) < 2 \/ Len(slow_ema) < 2 THEN <<FALSE, FALSE>>
    ELSE LET prev_fast == fast_ema[Len(fast_ema) - 1]
             prev_slow == slow_ema[Len(slow_ema) - 1]
             curr_fast == fast_ema[Len(fast_ema)]
             curr_slow == slow_ema[Len(slow_ema)]
         IN << prev_fast < prev_slow /\ curr_fast > curr_slow,
               prev_fast > prev_slow /\ curr_fast < curr_slow >>

\* indicators.detect_ema_crossover: (bullish_cross, bearish_cross)
detect_ema_crossover(fast_ema, slow_ema) ==
    IF Len(fast_ema) < 2 \/ Len(slow_ema) < 2 THEN <<FALSE, FALSE>>
    ELSE LET prev_fast == fast_ema[Len(fast_ema) - 1]
             prev_slow == slow_ema[Len(slow_ema) - 1]
             curr_fast == fast_ema[Len(fast_ema)]
             curr_slow == slow_ema[Len(slow_ema)]
         IN << prev_fast <= prev_slow /\ curr_fast > curr_slow,
               prev_fast >= prev_slow /\ curr_fast < curr_slow >>

\* _check_entry_signal has the two EMA series of a symbol
CrossInit ==
    /\ pc = "series"
    /\ sm = default_state
    /\ rm = new_risk_manager
    /\ om = new_order_manager
    /\ eng = new_engine(0)
    /\ venue = new_venue
    /\ \E f \in EmaSeries, w \in EmaSeries :
        aux = [fast_ema |-> f, slow_ema |-> w, cross |-> <<FALSE, FALSE>>]

\* _check_entry_signal line 331
DetectCrossover ==
    /\ pc = "series"
    /\ pc' = "detected"
    /\ aux' = [aux EXCEPT !.cross = detect_ema_crossover(aux.fast_ema, aux.slow_ema)]
    /\ UNCHANGED <<sm, rm, om, eng, venue>>

CrossNext == DetectCrossover

CrossSpec == CrossInit /\ [][CrossNext]_vars

\* the sample of a series k places before its end, 0 where it has none
Sample(series, k) == IF Len(series) > k THEN series[Len(series) - k] ELSE 0

\* C33: the detection is bullish exactly when both series have two samples
\* and the fast EMA was at or below the slow one and is now above it,
\* bearish exactly when it was at or above and is now below, and neither
\* when a series has fewer than two samples.
C33_CrossoverDetection ==
    pc = "detected" =>
        LET f == aux.fast_ema
            w == aux.slow_ema
            enough == Len(f) >= 2 /\ Len(w) >= 2
        IN /\ aux.cross[1] <=> /\ enough
                                /\ Sample(f, 1) <= Sample(w, 1)
                                /\ Sample(f, 0) > Sample(w, 0)
           /\ aux.cross[2] <=> /\ enough
                                /\ Sample(f, 1) >= Sample(w, 1)
                                /\ Sample(f, 0) < Sample(w, 0)
           /\ ~enough => aux.cross = <<FALSE, FALSE>>

\* C33: series of different lengths that touched one bar ago and now
\* have the fast EMA above: a bullish crossover was detected
C33_Witness ==
    /\ pc = "detected"
    /\ Len(aux.fast_ema) = 3 /\ Len(aux.slow_ema) = 2
    /\ Sample(aux.fast_ema, 1) = Sample(aux.slow_ema, 1)
    /\ Sample(aux.fast_ema, 0) > Sample(aux.slow_ema, 0)
    /\ aux.cross = <<TRUE, FALSE>>

-----------------------------------------------------------------------------
(* RiskManager.calculate_position_size on its own *)

SizeEquities == {4000, 100000}
SizeEntries == {100, 200}
\* the stop of a signal, as its distance from the entry price
SizeStops == {-40, -3, 0, 3, 40}
SizeSpreads == {5, 500}

\* _execute_entry has a signal, the equity of the tick and the median
\* spread; the peak equity is the equity or 5% above it (a drawdown)
SizeInit ==
    /\ pc = "signal"
    /\ sm = default_state
    /\ \E e \in SizeEquities, k \in {0, 1} :
        /\ rm = [new_risk_manager EXCEPT !.peak_equity = e + k * (e \div 20)]
        /\ \E p \in SizeEntries, d \in SizeStops, b \in SizeSpreads :
            aux = [equity |-> e, entry_price |-> p, stop_price |-> p + d,
                   spread_bps |-> b, shares |-> 0, risk_amount |-> 0]
    /\ om = new_order_manager
    /\ eng = new_engine(0)
    /\ venue = new_venue

\* _execute_entry lines 513-515
SizePosition ==
    /\ pc = "signal"
    /\ pc' = "sized"
    /\ LET r == calculate_position_size(rm, aux.equity, aux.entry_price,
                                        aux.stop_price, aux.spread_bps)
       IN aux' = [aux EXCEPT !.shares = r[1], !.risk_amount = r[2]]
    /\ UNCHANGED <<sm, rm, om, eng, venue>>

SizeNext == SizePosition

SizeSpec == SizeInit /\ [][SizeNext]_vars

\* the distance the size is computed with, over Scale: the distance to the
\* stop, or the minimum stop (3 median spreads, 0.5% of the price) if larger
SizedDistance ==
    Max2(Abs(aux.entry_price - aux.stop_price) * Scale,
         Max2(aux.spread_bps * aux.entry_price * 10 * MIN_STOP_SPREAD_MULTIPLIER,
              aux.entry_price * MIN_STOP_PERCENT))
\* equity x risk percent, over Scale
SizedRisk == aux.equity * get_adjusted_risk_percent(rm, aux.equity)

\* C34: the size is the whole number of stop distances that fit in the
\* risk amount, and 1 when none fits; equity 100000 at 0.75%, entry 100
\* and stop 97 give 250 shares risking 750.
C34_PositionSize ==
    pc = "sized" =>
        /\ aux.shares >= 1
        /\ aux.shares > 1 => /\ aux.shares * SizedDistance <= SizedRisk
                              /\ (aux.shares + 1) * SizedDistance > SizedRisk
        /\ aux.shares = 1 => 2 * SizedDistance > SizedRisk
        /\ ( /\ aux.equity = 100000 /\ rm.peak_equity = 100000
              /\ aux.entry_price = 100 /\ aux.stop_price = 97
              /\ aux.spread_bps = 5 )
            => /\ SizedDistance = 3 * Scale
               /\ SizedRisk = 750 * Scale
               /\ aux.shares = 250
               /\ aux.risk_amount = 750

\* C34: the example, sized
C34_Witness ==
    /\ pc = "sized"
    /\ aux.equity = 100000 /\ rm.peak_equity = 100000
    /\ aux.entry_price = 100 /\ aux.stop_price = 97 /\ aux.spread_bps = 5
    /\ aux.shares = 250

-----------------------------------------------------------------------------
(* _take_partial_profit on its own *)

PartialQuantities == {1, 2, 3, 4}
PartialStops == {8, 80}

\* an open Trade of either side as _execute_entry records it; the venue
\* reports a short position with a negative quantity
PartialTrade(symbol, side, qty, dist) ==
    [ symbol |-> symbol, side |-> side, qty |-> qty,
      entry_price |-> MarkPrice,
      stop_price |-> IF side = "long" THEN MarkPrice - dist ELSE MarkPrice + dist,
      risk_amount |-> qty * dist, vol_regime |-> "normal", partial_taken |-> FALSE ]

\* _manage_exits is at line 668 for the one Trade of the ledger, with
\* r_mult >= PARTIAL_TAKE_PROFIT_R and the position read from the venue
PartialInit ==
    /\ pc = "profit"
    /\ rm = new_risk_manager
    /\ om = new_order_manager
    /\ eng = new_engine(1)
    /\ \E b \in Budgets : aux = [new_aux EXCEPT !.budget = b]
    /\ \E x \in Symbols, side \in {"long", "short"}, q \in PartialQuantities,
          d \in PartialStops :
        /\ sm = [default_state EXCEPT
                    !.active_trades = Put(Empty, 1, PartialTrade(x, side, q, d))]
        /\ venue = [new_venue EXCEPT
                    !.pos[x] = IF side = "long" THEN q ELSE 0 - q]

\* _manage_exits line 669
TakePartialProfit ==
    /\ pc = "profit"
    /\ LET x == sm.active_trades[1].symbol
       IN \E r \in take_partial_profit(State, 1, venue.pos[x]) :
            Becomes([r EXCEPT !.pc = "taken"])

PartialNext == TakePartialProfit

PartialSpec == PartialInit /\ [][PartialNext]_vars

\* C39: when the partial take is reached for a Trade of either side with
\* at least two units at the venue and the order goes through, the position
\* is reduced by the fixed fraction, and the Trade has the quantity that is
\* left and is marked as partially taken.
C39_PartialTakeBothSides ==
    [][(pc = "profit" /\ pc' = "taken" /\ aux'.failures = aux.failures) =>
        LET x == sm.active_trades[1].symbol
            held == Abs(venue.pos[x])
            part == (held * PARTIAL_TAKE_PERCENT) \div Scale
        IN held >= 2 =>
            /\ Abs(venue'.pos[x]) = held - part
            /\ sm'.active_trades[1].qty = held - part
            /\ sm'.active_trades[1].partial_taken]_vars

\* C39: the partial take was reached for a short Trade of 4 units, no
\* venue call failed, and nothing was bought
C39_Witness ==
    /\ pc = "taken"
    /\ aux.failures = 0
    /\ \E x \in Symbols :
        /\ venue.pos[x] = 0 - 4
        /\ sm.active_trades[1] = PartialTrade(x, "short", 4, 8)
    /\ ~aux.venue_called

-----------------------------------------------------------------------------
(* The quantity of an entry order: _execute_entry up to the submission *)

\* the rolling average of the slippage of a symbol, in basis points
ObservedSlippages == {0, 1, 2, 3, 5, 10, 20}

\* _scan_for_entries has a signal for a symbol that may have been traded
\* before; no position is open
OrderInit ==
    /\ pc = "signal"
    /\ om = new_order_manager
    /\ venue = new_venue
    /\ \E e \in Equities, k \in {0, 1} :
        /\ eng = [new_engine(0) EXCEPT !.equity = e]
        /\ rm = [new_risk_manager EXCEPT !.peak_equity = e + k * (e \div 20)]
    /\ \E x \in Symbols, m \in {"bullish", "bearish"} :
        /\ \E sig \in Signals(m) :
            aux = [ signal |-> with_stop(sig, x), approved |-> 0,
                    submitted |-> 0, risk_amount |-> 0 ]
        /\ \/ sm = default_state
           \/ \E b \in ObservedSlippages :
                sm = [default_state EXCEPT !.observed_slippage = Put(Empty, x, b)]

\* _execute_entry lines 513-544: the size, the two gates, the adjustment
\* for slippage and the submission
SubmitEntryOrder ==
    /\ pc = "signal"
    /\ LET signal == aux.signal
           size == approved_size(State, signal)
           approved ==
               /\ check_total_risk_capacity(rm, size[2], eng.equity)
               /\ check_sector_exposure(signal.symbol, size[1] * signal.entry_price,
                                         eng.positions, eng.equity)
       IN IF approved
          THEN /\ pc' = "submitted"
               /\ aux' = [aux EXCEPT !.approved = size[1],
                                     !.risk_amount = size[2],
                                     !.submitted = order_size(State, signal)]
          ELSE /\ pc' = "rejected"
               /\ aux' = aux
    /\ UNCHANGED <<sm, rm, om, eng, venue>>

OrderNext == SubmitEntryOrder

OrderSpec == OrderInit /\ [][OrderNext]_vars

\* C40: the quantity of a submitted entry order is at most the quantity
\* the risk gates approved, and the risk amount of the entry covers the
\* submitted quantity times the distance to the stop (the model keeps the
\* risk amount in whole units, rounded down).
C40_SubmittedWithinApproved ==
    pc = "submitted" =>
        /\ aux.submitted <= aux.approved
        /\ aux.risk_amount + 1 >
             aux.submitted * Abs(aux.signal.entry_price - aux.signal.stop_price)

\* C40: the symbol's observed slippage is below the target and the order
\* submitted is for more than the approved quantity
C40_Witness ==
    /\ pc = "submitted"
    /\ aux.signal.symbol \in DOMAIN sm.observed_slippage
    /\ sm.observed_slippage[aux.signal.symbol] > 0
    /\ sm.observed_slippage[aux.signal.symbol] < TARGET_SLIPPAGE_BPS
    /\ aux.submitted > aux.approved

====
